---- MODULE Spec2Model ----
(***************************************************************************)
(* The handle table (src/src/file_handles.rs), the descriptor state        *)
(* machine behind it, and the filesystem handlers of                       *)
(* src/src/passthrough.rs that use the table.                              *)
(*                                                                         *)
(* Two specifications share the state:                                     *)
(*   Spec      the handlers of PassthroughFS running against one table;    *)
(*             they register only Path and Handle descriptors.             *)
(*   SpecDesc  the FileHandles/Descriptor interface itself, with lazily    *)
(*             opened and composite descriptors and their worker threads.  *)
(*                                                                         *)
(* Every handler takes the table's Mutex (passthrough.rs:30) for its one   *)
(* access to the table, and register_handle/free_handle/find take          *)
(* &mut self, so one table access is one atomic step.                      *)
(***************************************************************************)
EXTENDS Integers, Sequences, FiniteSets, TLC

VARIABLES
    FH_COUNTER, \* the process-global AtomicU64 (file_handles.rs:13)
    open,       \* FileHandles.open: handle -> Descriptor (file_handles.rs:16)
    fds,        \* OS descriptors currently open in the backing store
    chan,       \* the one-shot channels of the lazy opens, by creation order
    blocked,    \* the find parked in rx.recv() while holding the table, or <<>>
    poisoned,   \* a handler panicked while holding a MutexGuard
    last,       \* the operation that made the last step, and what it returned
    src,        \* the source tree a build walks
    root,       \* the cache tree under construction (cache.rs:271)
    zip,        \* the members written to the archive, in order
    cwd,        \* the working directory of the process: "orig" or "src"
    walk,       \* the entries the walker has still to yield
    build,      \* where build is, its options, warnings and result
    audio,      \* the loop of add_audio_to_cache
    dest,       \* a cover database: the one a build fills, or the
                \* destination of an import
    imported,   \* the last import made into dest
    found,      \* the last lookup in the finished tree
    mutex,      \* who holds each Mutex of PassthroughFS (passthrough.rs:29-30)
    thread      \* where each thread is in the handler it runs

vars == <<FH_COUNTER, open, fds, chan, blocked, poisoned, last, src, root,
          zip, cwd, walk, build, audio, dest, imported, found, mutex, thread>>

\* What a handler taken as one step leaves alone: the state of build and
\* import, and the threads and mutexes of handlers taken lock by lock.
Offline ==
    <<src, root, zip, cwd, walk, build, audio, dest, imported, found, mutex,
      thread>>

-----------------------------------------------------------------------------
(* Bounds of the model *)

\* The counter is a u64 that wraps at 2^64; the model wraps it at HandleSpace.
HandleSpace == 3

\* At most this many handles are live in the table at once.
MaxOpen == 2

\* At most this many descriptors are registered at once where the descriptor
\* state machine is explored (SpecDesc).
MaxDesc == 1

\* At most this many lazy opens are started in a run.
MaxLazy == 1

(* Program constants *)

\* The offset from which a Composite resolves its tail (file_handles.rs:127).
PREFIX_LIMIT == 16384

\* The most bytes of an audio file that build caches (cache.rs:226).
PART_LIMIT == 16384

\* The size of the read buffer of add_audio_to_cache (cache.rs:227).
CHUNK == 128

\* The permission bits of st_mode, 0o7777 (stat.rs:32).
PERM_BITS == 4095

\* The mask left to a cached lyric file, 0o5555 (cache.rs:60).
RO_MASK == 2925

Handles == 0 .. (HandleSpace - 1)

\* OS descriptors the process can still open.
Fds == {3, 4}

\* open(2) returns the lowest descriptor not open in the process; the set is
\* empty when none is left.
lowest_free(used) ==
    {fd \in Fds \ used : \A other \in Fds \ used : fd <= other}

\* errnos a backing open can fail with.
OpenErrnos == {"ENOENT", "EACCES"}

\* Option<T>: None is <<>>, Some(v) is <<v>>.
None == <<>>
Some(v) == <<v>>
unwrap_or(o, dflt) == IF o = None THEN dflt ELSE o[1]

-----------------------------------------------------------------------------
(* Descriptor (file_handles.rs:60-75) *)

NoDesc == [tag |-> "None"]
DPath(p) == [tag |-> "Path", path |-> p]
DHandle(fd) == [tag |-> "Handle", fd |-> fd]
DLazy(c) == [tag |-> "Lazy", rx |-> c]
DError(e) == [tag |-> "Error", errno |-> e]
DFile(p) == [tag |-> "File", path |-> p]
DComposite(tail, p, len) ==
    [tag |-> "Composite", handle |-> tail, path |-> p, len |-> len]

-----------------------------------------------------------------------------
(* The handle table (file_handles.rs:19-57) *)

fetch_add(ctr) == (ctr + 1) % HandleSpace

\* A register that takes the first counter value without looking at the table.
find_first_available_nocheck(tbl, ctr) ==
    [key |-> ctr, counter |-> fetch_add(ctr), skips |-> 0]

RECURSIVE find_first_available_from(_, _, _)
find_first_available_from(tbl, ctr, n) ==
    IF ctr \in DOMAIN tbl
    THEN find_first_available_from(tbl, fetch_add(ctr), n + 1)
    ELSE [key |-> ctr, counter |-> fetch_add(ctr), skips |-> n]

\* key = FH_COUNTER.fetch_add(1); while open.contains_key(key) { again }
find_first_available(tbl, ctr) == find_first_available_from(tbl, ctr, 0)

\* HashMap::insert: an entry already under the key is replaced.
insert(tbl, key, d) ==
    [k \in DOMAIN tbl \cup {key} |-> IF k = key THEN d ELSE tbl[k]]

remove(tbl, key) == [k \in DOMAIN tbl \ {key} |-> tbl[k]]

\* A register that hands out the lowest value not in the table, as open(2)
\* hands out descriptors, and leaves the counter alone.
register_handle_lowest(tbl, ctr, d) ==
    LET key == CHOOSE k \in 0 .. HandleSpace - 1 :
                  /\ k \notin DOMAIN tbl
                  /\ \A j \in 0 .. k - 1 : j \in DOMAIN tbl
    IN  [key |-> key, counter |-> ctr, skips |-> 0,
         open |-> insert(tbl, key, d)]

\* FileHandles::register_handle (file_handles.rs:35-39).
register_handle(tbl, ctr, d) ==
    LET r == find_first_available(tbl, ctr)
    IN  [key |-> r.key, counter |-> r.counter, skips |-> r.skips,
         open |-> insert(tbl, r.key, d)]

\* free_handle that finds the descriptor but leaves it in the table.
free_handle_keep(tbl, h) ==
    IF h \in DOMAIN tbl
    THEN [ok |-> TRUE, d |-> tbl[h], open |-> tbl]
    ELSE [ok |-> FALSE, d |-> NoDesc, open |-> tbl]

free_handle(tbl, h) ==
    IF h \in DOMAIN tbl
    THEN [ok |-> TRUE, d |-> tbl[h], open |-> remove(tbl, h)]
    ELSE [ok |-> FALSE, d |-> NoDesc, open |-> tbl]

\* The table has room for one more handle (the loop of find_first_available
\* ends only when some key is absent).
HasRoom == Cardinality(DOMAIN open) < MaxOpen

-----------------------------------------------------------------------------
(* What the last step did *)

\* op, path, fh, off: the call; ret, errno, d: what it returned;
\* skips: the keys find_first_available passed over; was: the tag of the
\* descriptor under fh before the call; waited: the call was parked in recv;
\* recv: the channel the call received from, or 0;
\* again: the call before it was a successful release of the same handle;
\* sys: the blocking call the handler made ("" when it made none);
\* held: the mutexes the handler held while it made that call;
\* size, data: the size asked of a read and the bytes it handed back;
\* attr: the attributes a getattr handed back.
NoAttr == [kind |-> "None", perm |-> 0]

Ret(op, path, fh, off, ret, d, skips) ==
    [op |-> op, path |-> path, fh |-> fh, off |-> off, ret |-> ret,
     errno |-> "", d |-> d, skips |-> skips, was |-> "", waited |-> FALSE,
     recv |-> 0, again |-> FALSE, sys |-> "", held |-> {}, size |-> 0,
     data |-> << >>, attr |-> NoAttr]

TagOf(tbl, h) == IF h \in DOMAIN tbl THEN tbl[h].tag ELSE "None"

-----------------------------------------------------------------------------
(* The mounted tree: the cache tree, the archive and the backing store *)

Paths == {"/a", "/a/1.txt", "/notes.md", "/new"}

\* The path of a call whose path argument is only logged.
AnyPath == CHOOSE p \in Paths : TRUE

\* struct_cache.find(path_to_rel(path)): the kind of the entry, or "None".
TreeKind(p) ==
    CASE p = "/a" -> "Dict"
      [] p = "/a/1.txt" -> "File"
      [] p = "/notes.md" -> "File"
      [] OTHER -> "None"

\* files_cache.by_name(rel) is Ok: the archive has a member for the path.
InArchive(p) == p = "/a/1.txt"

\* The bytes of the archive member for a path (empty when it has none).
Member(p) == IF p = "/a/1.txt" THEN <<120, 121, 122>> ELSE << >>

\* Offsets and sizes handed to read: below, at and past the end of the
\* member; nothing, less than and more than what is left.
ReadOffsets == {0, 1, 3, 4}
ReadSizes == {0, 2, 1024}

\* The stat the cache tree records for a path: kind and permission bits
\* (0o755, 0o444, 0o644).
TreeStat(p) ==
    CASE p = "/a" -> [kind |-> "Directory", perm |-> 493]
      [] p = "/a/1.txt" -> [kind |-> "RegularFile", perm |-> 292]
      [] p = "/notes.md" -> [kind |-> "RegularFile", perm |-> 420]
      [] OTHER -> NoAttr

\* stat_real that answers for a path missing from the tree with the stat of
\* the directory it stopped in.
stat_real_lenient(p) ==
    IF TreeKind(p) = "None"
    THEN [ok |-> TRUE, attr |-> TreeStat("/a")]
    ELSE [ok |-> TRUE, attr |-> TreeStat(p)]

\* stat_real (passthrough.rs:51-66): the stat of the entry, or NotFound.
stat_real(p) ==
    IF TreeKind(p) = "None"
    THEN [ok |-> FALSE, attr |-> NoAttr]
    ELSE [ok |-> TRUE, attr |-> TreeStat(p)]

\* What a call on an open OS descriptor can return.
BackingResults == {"Ok", "EIO"}

Init ==
    /\ FH_COUNTER = 0
    /\ open = << >>
    /\ fds = {}
    /\ chan = << >>
    /\ blocked = None
    /\ poisoned = FALSE
    /\ last = Ret("init", "", None, None, "Ok", NoDesc, 0)
    \* A mount runs no build and no import: their state is empty.
    /\ src = << >> /\ root = << >> /\ zip = << >> /\ cwd = << >>
    /\ walk = << >> /\ build = << >> /\ audio = << >> /\ dest = << >>
    /\ imported = << >> /\ found = << >>
    /\ mutex = << >> /\ thread = << >>

\* A handler runs: no find is parked holding the table, and no earlier panic
\* has poisoned the Mutex (every handler's lock().unwrap() panics after that).
Running == blocked = None /\ ~poisoned

-----------------------------------------------------------------------------
(* The descriptor state machine (file_handles.rs:77-149) *)

\* What the worker of a lazy open sends: Ok(fd) or Err(errno).
MsgOk(fd) == [ok |-> TRUE, fd |-> fd, errno |-> ""]
MsgErr(e) == [ok |-> FALSE, fd |-> 0, errno |-> e]
NoMsg == [ok |-> FALSE, fd |-> 0, errno |-> "none"]

\* The Composite arm resolves its tail: offset.unwrap_or(0) >= 16_384.
\* As a slip would have it: on every call.
wants_tail_always(off) == TRUE

wants_tail(off) == unwrap_or(off, 0) >= PREFIX_LIMIT

\* The channel resolve(offset) receives from on descriptor d, or 0 when it
\* receives from none (channels are numbered from 1).
RecvFrom(d, off) ==
    CASE d.tag = "Lazy" -> d.rx
      [] d.tag = "Composite" ->
            IF wants_tail(off) /\ d.handle.tag = "Lazy" THEN d.handle.rx ELSE 0
      [] OTHER -> 0

\* The channel a descriptor still holds the receiver of, or 0.
RxOf(d) ==
    CASE d.tag = "Lazy" -> d.rx
      [] d.tag = "Composite" -> IF d.handle.tag = "Lazy" THEN d.handle.rx ELSE 0
      [] OTHER -> 0

ResOk(d) == [ok |-> TRUE, errno |-> "", d |-> d]
ResErr(e, d) == [ok |-> FALSE, errno |-> e, d |-> d]

\* The Lazy arm without the assignment of Error(x) to *self.
resolve_lazy_keeps_lazy(d, m) ==
    IF m.ok THEN ResOk(DHandle(m.fd)) ELSE ResErr(m.errno, d)

\* The Lazy arm (file_handles.rs:113-124); m is what rx.recv() returned.
resolve_lazy(d, m) ==
    IF m.ok THEN ResOk(DHandle(m.fd)) ELSE ResErr(m.errno, DError(m.errno))

\* The Composite arm without the assignment of the new tail to *handle.
resolve_composite_keeps_tail(d, off, m) ==
    IF wants_tail(off) /\ d.handle.tag = "Lazy"
    THEN IF m.ok THEN ResOk(d) ELSE ResErr(m.errno, DError(m.errno))
    ELSE ResOk(d)

\* The Composite arm without the assignment of Error(x) to *self.
resolve_composite_keeps_prefix(d, off, m) ==
    IF wants_tail(off) /\ d.handle.tag = "Lazy"
    THEN IF m.ok THEN ResOk([d EXCEPT !.handle = DHandle(m.fd)])
                 ELSE ResErr(m.errno, d)
    ELSE ResOk(d)

\* The Composite arm (file_handles.rs:125-144).
resolve_composite(d, off, m) ==
    IF wants_tail(off) /\ d.handle.tag = "Lazy"
    THEN IF m.ok THEN ResOk([d EXCEPT !.handle = DHandle(m.fd)])
                 ELSE ResErr(m.errno, DError(m.errno))
    ELSE ResOk(d)

\* The Error arm falling through to the catch-all arm.
resolve_error_ok(d) == ResOk(d)

\* The Error arm (file_handles.rs:145).
resolve_error(d) == ResErr(d.errno, d)

\* Descriptor::resolve (file_handles.rs:111-148).
resolve(d, off, m) ==
    CASE d.tag = "Lazy" -> resolve_lazy(d, m)
      [] d.tag = "Composite" -> resolve_composite(d, off, m)
      [] d.tag = "Error" -> resolve_error(d)
      [] OTHER -> ResOk(d)

\* find that hands out the descriptor without resolving it.
find_unresolved(tbl, h, off, m) ==
    IF h \notin DOMAIN tbl
    THEN [ok |-> FALSE, err |-> "Handle not found", errno |-> "",
          d |-> NoDesc, open |-> tbl]
    ELSE [ok |-> TRUE, err |-> "", errno |-> "", d |-> tbl[h], open |-> tbl]

\* FileHandles::find: get_mut, then resolve in place.
\* err is "" (Ok), "Handle not found" or "Handle failed to open".
find(tbl, h, off, m) ==
    IF h \notin DOMAIN tbl
    THEN [ok |-> FALSE, err |-> "Handle not found", errno |-> "",
          d |-> NoDesc, open |-> tbl]
    ELSE LET r == resolve(tbl[h], off, m)
         IN  [ok |-> r.ok,
              err |-> IF r.ok THEN "" ELSE "Handle failed to open",
              errno |-> r.errno,
              d |-> IF r.ok THEN r.d ELSE NoDesc,
              open |-> [tbl EXCEPT ![h] = r.d]]

\* find as the handlers of passthrough.rs call it: find(fh), no offset.
\* The descriptors those handlers register (Path, Handle) never receive.
lookup(h) == find(open, h, None, NoMsg)

-----------------------------------------------------------------------------
(* The handlers of PassthroughFS (passthrough.rs:84-906).  A handler that  *)
(* uses its path argument only to log it takes no path here.               *)

FsFrame == UNCHANGED <<chan, blocked>> /\ UNCHANGED Offline

\* A handler that returns ret and changes nothing.
Returns(op, path, fh, ret) ==
    /\ last' = Ret(op, path, fh, None, ret, NoDesc, 0)
    /\ UNCHANGED <<FH_COUNTER, open, fds, poisoned>>
    /\ FsFrame

\* The two mutexes of PassthroughFS (passthrough.rs:29-30).
TableLock == "file_handles"
ArchiveLock == "files_cache"

\* A handler that makes the blocking call sys while it holds the mutexes
\* held, returns ret and changes nothing.  A guard taken in the scrutinee of a
\* match lives to the end of the match; one taken in the initialiser of a let
\* is dropped at the end of the let statement.
ReturnsAfter(op, path, fh, ret, sys, held) ==
    /\ last' = [Ret(op, path, fh, None, ret, NoDesc, 0)
                   EXCEPT !.sys = sys, !.held = held]
    /\ UNCHANGED <<FH_COUNTER, open, fds, poisoned>>
    /\ FsFrame

\* A handler that panics while it holds a MutexGuard: the Mutex is poisoned.
Panics(op, path, fh) ==
    /\ last' = Ret(op, path, fh, None, "panic", NoDesc, 0)
    /\ poisoned' = TRUE
    /\ UNCHANGED <<FH_COUNTER, open, fds>>
    /\ FsFrame

\* register_handle(d) inside a handler that then returns Ok((key, flags)),
\* after the blocking call sys made while holding the mutexes held.
Registers(op, path, d, sys, held) ==
    /\ HasRoom
    /\ LET r == register_handle(open, FH_COUNTER, d)
       IN  /\ open' = r.open
           /\ FH_COUNTER' = r.counter
           /\ last' = [Ret(op, path, Some(r.key), None, "Ok", NoDesc, r.skips)
                          EXCEPT !.sys = sys, !.held = held]
    /\ UNCHANGED poisoned
    /\ FsFrame

\* open that goes to the backing store whatever the archive holds.
Open_unrouted(path) ==
    /\ Running
    /\ \/ \E fd \in lowest_free(fds) :
             /\ fds' = fds \cup {fd}
             /\ Registers("open", path, DHandle(fd), "open", {ArchiveLock})
       \/ \E e \in OpenErrnos :
             ReturnsAfter("open", path, None, e, "open", {ArchiveLock})

\* passthrough.rs:442-476.  The guard of files_cache is a temporary of the
\* match scrutinee, so it is held through both arms.
Open(path) ==
    /\ Running
    /\ IF InArchive(path)
       THEN Registers("open", path, DPath(path), "", {}) /\ UNCHANGED fds
       ELSE \/ \E fd \in lowest_free(fds) :
                 /\ fds' = fds \cup {fd}
                 /\ Registers("open", path, DHandle(fd), "open", {ArchiveLock})
            \/ \E e \in OpenErrnos :
                 ReturnsAfter("open", path, None, e, "open", {ArchiveLock})

\* passthrough.rs:620-635
Opendir(path) ==
    /\ Running
    /\ IF TreeKind(path) # "None"
       THEN Registers("opendir", path, DPath(path), "", {}) /\ UNCHANGED fds
       ELSE Returns("opendir", path, None, "ENOENT")

\* release and releasedir: free_handle, then close what it held.
ReleaseOps == {"release", "releasedir"}

Freed(op, fh, ret, d) ==
    [Ret(op, "", Some(fh), None, ret, d, 0) EXCEPT
        !.was = TagOf(open, fh),
        !.again = /\ last.op \in ReleaseOps
                  /\ last.fh = Some(fh)
                  /\ last.was # "None"]

Frees(op, fh) ==
    LET r == free_handle(open, fh)
    IN  /\ open' = r.open
        /\ UNCHANGED <<FH_COUNTER, poisoned>>
        /\ FsFrame
        /\ IF ~r.ok
           THEN /\ last' = Freed(op, fh, "EBADF", NoDesc)
                /\ UNCHANGED fds
           ELSE IF r.d.tag = "Handle"
           THEN \E res \in BackingResults :
                   /\ fds' = fds \ {r.d.fd}
                   /\ last' = [Freed(op, fh, res, r.d)
                                  EXCEPT !.sys = "close", !.held = {TableLock}]
           ELSE /\ last' = Freed(op, fh, "Ok", r.d)
                /\ UNCHANGED fds

\* passthrough.rs:581-596
Release(fh) == Running /\ Frees("release", fh)

\* passthrough.rs:731-738
Releasedir(fh) == Running /\ Frees("releasedir", fh)

\* getattr answered from the cache tree: Ok((TTL, attr)) or ENOENT.
StatsTree(path, fh) ==
    LET st == stat_real(path)
    IN  /\ last' = [Ret("getattr", path, fh, None,
                        IF st.ok THEN "Ok" ELSE "ENOENT", NoDesc, 0)
                       EXCEPT !.attr = st.attr]
        /\ UNCHANGED <<FH_COUNTER, open, fds, poisoned>>
        /\ FsFrame

\* passthrough.rs:94-117
Getattr(path, fh) ==
    /\ Running
    /\ IF fh # None
       THEN LET r == lookup(fh[1])
            IN  IF ~r.ok THEN Returns("getattr", path, fh, "ENOENT")
                ELSE IF r.d.tag = "Handle"
                THEN \E res \in BackingResults :
                        ReturnsAfter("getattr", path, fh, res,
                                     "fstat", {TableLock})
                ELSE StatsTree(path, fh)
       ELSE StatsTree(path, fh)

\* truncate that asks neither the descriptor nor the archive whether the
\* file is cached.
Truncate_unrouted(path, fh) ==
    /\ Running
    /\ IF fh # None
       THEN LET r == lookup(fh[1])
            IN  IF ~r.ok THEN Returns("truncate", "", fh, "ENOENT")
                ELSE \E res \in BackingResults :
                        ReturnsAfter("truncate", "", fh, res,
                                     "ftruncate", {TableLock})
       ELSE \E res \in BackingResults \cup OpenErrnos :
               ReturnsAfter("truncate", path, fh, res,
                            "truncate", {ArchiveLock})

\* passthrough.rs:178-216.  Both system calls are made inside the match
\* whose scrutinee locked a mutex.
Truncate(path, fh) ==
    /\ Running
    /\ IF fh # None
       THEN LET r == lookup(fh[1])
            IN  IF ~r.ok THEN Returns("truncate", "", fh, "ENOENT")
                ELSE IF r.d.tag = "Handle"
                THEN \E res \in BackingResults :
                        ReturnsAfter("truncate", "", fh, res,
                                     "ftruncate", {TableLock})
                ELSE Returns("truncate", "", fh, "EACCES")
       ELSE IF InArchive(path)
            THEN Returns("truncate", path, fh, "EACCES")
            ELSE \E res \in BackingResults \cup OpenErrnos :
                    ReturnsAfter("truncate", path, fh, res,
                                 "truncate", {ArchiveLock})

\* Cursor::seek(SeekFrom::Start(off)) never fails; Cursor::read then copies
\* from min(off, len) as many bytes as are left and fit in size.
Min(a, b) == IF a < b THEN a ELSE b

\* A read that forgets the seek and copies from the start of the member.
cursor_read_unseeked(buf, off, size) == SubSeq(buf, 1, Min(size, Len(buf)))

cursor_read(buf, off, size) ==
    LET pos == Min(off, Len(buf))
    IN  SubSeq(buf, pos + 1, Min(pos + size, Len(buf)))

\* A read from the archive: the slice of the member, handed to the callback.
ReadsMember(fh, off, size, path) ==
    /\ last' = [Ret("read", "", Some(fh), Some(off), "Ok", NoDesc, 0)
                   EXCEPT !.sys = "archive",
                          !.held = {TableLock, ArchiveLock},
                          !.size = size,
                          !.data = cursor_read(Member(path), off, size)]
    /\ UNCHANGED <<FH_COUNTER, open, fds, poisoned>>
    /\ FsFrame

\* passthrough.rs:478-530.  The whole body runs inside the match on find(fh),
\* so the table stays locked while the archive or the backing file is read.
Read(fh, off, size) ==
    /\ Running
    /\ LET r == lookup(fh)
       IN  IF ~r.ok THEN Returns("read", "", Some(fh), "EBADF")
           ELSE IF r.d.tag = "Handle"
           THEN \E res \in BackingResults :
                   ReturnsAfter("read", "", Some(fh), res, "read", {TableLock})
           ELSE IF InArchive(r.d.path)
           THEN ReadsMember(fh, off, size, r.d.path)
           ELSE Panics("read", "", Some(fh))

\* write, fsync and fsyncdir: only a Handle is used, anything else is EACCES.
\* The descriptor number is copied out in a let, so the table is unlocked
\* again when the system call sys is made.
NeedsHandle(op, fh, sys) ==
    LET r == lookup(fh)
    IN  IF r.ok /\ r.d.tag = "Handle"
        THEN \E res \in BackingResults :
                ReturnsAfter(op, "", Some(fh), res, sys, {})
        ELSE Returns(op, "", Some(fh), "EACCES")

\* write that goes to the descriptor number it was handed when the table has
\* no Handle under it.
Write_unchecked(fh) ==
    /\ Running
    /\ \E res \in BackingResults :
          ReturnsAfter("write", "", Some(fh), res, "write", {})

\* passthrough.rs:532-561
Write(fh) == Running /\ NeedsHandle("write", fh, "write")

\* passthrough.rs:598-618
Fsync(fh) == Running /\ NeedsHandle("fsync", fh, "fsync")

\* passthrough.rs:740-757
Fsyncdir(fh) == Running /\ NeedsHandle("fsyncdir", fh, "fsync")

\* passthrough.rs:563-579
Flush(fh) ==
    /\ Running
    /\ LET r == lookup(fh)
       IN  IF r.ok /\ r.d.tag = "Handle"
           THEN \E res \in BackingResults :
                   ReturnsAfter("flush", "", Some(fh), res, "flush", {})
           ELSE Returns("flush", "", Some(fh), "Ok")

\* passthrough.rs:637-729
Readdir(path, fh) ==
    /\ Running
    /\ IF fh = 0 THEN Returns("readdir", path, Some(fh), "EINVAL")
       ELSE LET r == lookup(fh)
            IN  IF ~r.ok THEN Panics("readdir", path, Some(fh))
                ELSE IF r.d.tag = "Handle"
                THEN \E res \in BackingResults :
                        ReturnsAfter("readdir", path, Some(fh), res,
                                     "readdir", {TableLock})
                ELSE IF path # r.d.path THEN Panics("readdir", path, Some(fh))
                ELSE Returns("readdir", path, Some(fh),
                             CASE TreeKind(path) = "Dict" -> "Ok"
                               [] TreeKind(path) = "File" -> "ENOTDIR"
                               [] OTHER -> "ENOENT")

\* The handlers that would change the tree; each is Err(ENOSYS) and nothing
\* else (passthrough.rs:120-422, 779-852).
MutatorOps ==
    {"chmod", "chown", "utimens", "mknod", "mkdir", "unlink", "rmdir",
     "symlink", "rename", "link", "setxattr", "removexattr", "create"}

\* mkdir and unlink passed on to the backing store, as their disabled bodies
\* would do.
Mutator_enabled(op) ==
    IF op \in {"mkdir", "unlink"}
    THEN \E res \in BackingResults : ReturnsAfter(op, "", None, res, op, {})
    ELSE Returns(op, "", None, "ENOSYS")

\* These handlers lock nothing, so they answer after a panic of another
\* handler as well.
Mutator(op) == Returns(op, "", None, "ENOSYS")

\* Another mount of the same process registers a handle in its own table:
\* the counter is shared (file_handles.rs:13), the table is not.
OtherMount ==
    /\ FH_COUNTER' = fetch_add(FH_COUNTER)
    /\ last' = Ret("other", "", None, None, "Ok", NoDesc, 0)
    /\ UNCHANGED <<open, fds, poisoned>>
    /\ FsFrame

Next ==
    \/ \E p \in Paths : Open(p)
    \/ \E p \in Paths : Opendir(p)
    \/ \E h \in Handles : Release(h)
    \/ \E h \in Handles : Releasedir(h)
    \/ \E p \in Paths, h \in Handles : Getattr(p, Some(h))
    \/ \E p \in Paths : Getattr(p, None)
    \/ \E h \in Handles : Truncate(AnyPath, Some(h))
    \/ \E p \in Paths : Truncate(p, None)
    \/ \E h \in Handles, off \in ReadOffsets, size \in ReadSizes :
          Read(h, off, size)
    \/ \E h \in Handles : Write(h)
    \/ \E h \in Handles : Flush(h)
    \/ \E h \in Handles : Fsync(h)
    \/ \E h \in Handles : Fsyncdir(h)
    \/ \E p \in Paths, h \in Handles : Readdir(p, h)
    \/ \E op \in MutatorOps : Mutator(op)
    \/ OtherMount

Spec == Init /\ [][Next]_vars

-----------------------------------------------------------------------------
(* The FileHandles/Descriptor interface with lazy and composite opens *)

\* The file the descriptors of this specification are opened on.
DescPath == "/song.mp3"

\* Lengths of the in-memory prefix of a Composite: an empty member, a file
\* shorter than the limit, and a full prefix (cache.rs:226-236).
PrefixLens == {0, 100, PREFIX_LIMIT}

\* Offsets handed to find.
Offsets == {None, Some(100), Some(PREFIX_LIMIT - 1), Some(PREFIX_LIMIT)}

\* A channel: the worker has not sent ("pending"), its value is in the
\* channel ("sent"), the value was received ("received"), or its send failed
\* because the receiver was gone ("sendfailed").  rx: the receiver is alive;
\* a value still in the channel is lost with the receiver.
NewChan == [st |-> "pending", msg |-> NoMsg, recvs |-> 0, rx |-> TRUE]

DescFrame == UNCHANGED <<poisoned, blocked>> /\ UNCHANGED Offline

\* register_handle(d) called directly.
RegisterHandle(op, d) ==
    /\ Running
    /\ Cardinality(DOMAIN open) < MaxDesc
    /\ LET r == register_handle(open, FH_COUNTER, d)
       IN  /\ open' = r.open
           /\ FH_COUNTER' = r.counter
           /\ last' = Ret(op, DescPath, Some(r.key), None, "Ok", d, r.skips)
    /\ DescFrame

\* Descriptor::new(path) (file_handles.rs:78-80) or a File, registered.
RegisterPlain(d) ==
    /\ RegisterHandle("register", d)
    /\ UNCHANGED <<fds, chan>>

\* A descriptor opened eagerly, registered as Handle(fd).
RegisterOpened(fd) ==
    /\ fds' = fds \cup {fd}
    /\ RegisterHandle("register", DHandle(fd))
    /\ UNCHANGED chan

\* Descriptor::lazy(path, flags) (file_handles.rs:82-101), registered.
RegisterLazy ==
    /\ Len(chan) < MaxLazy
    /\ chan' = Append(chan, NewChan)
    /\ RegisterHandle("register", DLazy(Len(chan) + 1))
    /\ UNCHANGED fds

\* Descriptor::lazy_composite(path, flags, data) (file_handles.rs:103-109),
\* registered; len is data.len().
RegisterComposite(len) ==
    /\ Len(chan) < MaxLazy
    /\ chan' = Append(chan, NewChan)
    /\ RegisterHandle("register",
                      DComposite(DLazy(Len(chan) + 1), DescPath, len))
    /\ UNCHANGED fds

\* The thread spawned by Descriptor::lazy (file_handles.rs:85-99): the
\* blocking open, then one send; the send fails when the receiver is gone.
Worker(c) ==
    /\ chan[c].st = "pending"
    /\ \E m \in {MsgOk(fd) : fd \in lowest_free(fds)}
                 \cup {MsgErr(e) : e \in OpenErrnos} :
          /\ fds' = IF m.ok THEN fds \cup {m.fd} ELSE fds
          /\ chan' = [chan EXCEPT ![c] =
                        IF chan[c].rx
                        THEN [@ EXCEPT !.st = "sent", !.msg = m]
                        ELSE [@ EXCEPT !.st = "sendfailed"]]
    /\ last' = Ret("worker", DescPath, None, None, "Ok", NoDesc, 0)
    /\ UNCHANGED <<FH_COUNTER, open, poisoned, blocked>>
    /\ UNCHANGED Offline

Found(h, off, r, was, waited, c) ==
    [Ret("find", "", Some(h), off, IF r.ok THEN "Ok" ELSE r.err, r.d, 0)
        EXCEPT !.errno = r.errno, !.was = was, !.waited = waited, !.recv = c]

\* find(h, off) returns, having received from channel c when c # 0.
FindReturns(h, off, c, waited) ==
    LET m == IF c = 0 THEN NoMsg ELSE chan[c].msg
        r == find(open, h, off, m)
    IN  /\ open' = r.open
        /\ chan' = IF c = 0 THEN chan
                   ELSE [chan EXCEPT ![c].st = "received",
                                     ![c].msg = NoMsg,
                                     ![c].recvs = @ + 1]
        /\ last' = Found(h, off, r, TagOf(open, h), waited, c)
        /\ blocked' = None
        /\ UNCHANGED <<FH_COUNTER, fds, poisoned>>
        /\ UNCHANGED Offline

\* FileHandles::find(handle, offset) (file_handles.rs:48-57), up to the
\* point where it returns, parks in rx.recv(), or panics in expect().
Find(h, off) ==
    /\ Running
    /\ LET c == IF h \in DOMAIN open THEN RecvFrom(open[h], off) ELSE 0
       IN  IF c = 0 \/ chan[c].st = "sent"
           THEN FindReturns(h, off, c, FALSE)
           ELSE IF chan[c].st = "pending"
           THEN /\ blocked' = <<h, off>>
                /\ last' = [Ret("find", "", Some(h), off, "waiting", NoDesc, 0)
                               EXCEPT !.was = TagOf(open, h)]
                /\ UNCHANGED <<FH_COUNTER, open, fds, chan, poisoned>>
                /\ UNCHANGED Offline
           ELSE /\ chan' = [chan EXCEPT ![c].recvs = @ + 1]
                /\ poisoned' = TRUE
                /\ last' = [Ret("find", "", Some(h), off, "panic", NoDesc, 0)
                               EXCEPT !.was = TagOf(open, h), !.recv = c]
                /\ UNCHANGED <<FH_COUNTER, open, fds, blocked>>
                /\ UNCHANGED Offline

\* The parked rx.recv() returns once the worker has sent.
FindResume ==
    /\ blocked # None
    /\ LET h == blocked[1]
           off == blocked[2]
           c == RecvFrom(open[h], off)
       IN  /\ chan[c].st = "sent"
           /\ FindReturns(h, off, c, TRUE)

\* free_handle(h) (file_handles.rs:41-46); the caller drops what it gets,
\* closing the descriptor of a Handle as release does (passthrough.rs:592).
FreeHandle(h) ==
    /\ Running
    /\ LET r == free_handle(open, h)
           c == RxOf(r.d)
       IN  /\ open' = r.open
           /\ chan' = IF r.ok /\ c # 0
                      THEN [chan EXCEPT ![c].rx = FALSE, ![c].msg = NoMsg]
                      ELSE chan
           /\ fds' = IF r.ok /\ r.d.tag = "Handle" THEN fds \ {r.d.fd} ELSE fds
           /\ last' = [Ret("free", "", Some(h), None,
                           IF r.ok THEN "Ok" ELSE "Handle not found",
                           NoDesc, 0)
                          EXCEPT !.was = TagOf(open, h)]
    /\ UNCHANGED FH_COUNTER
    /\ DescFrame

NextDesc ==
    \/ \E d \in {DPath(DescPath), DFile(DescPath)} : RegisterPlain(d)
    \/ \E fd \in lowest_free(fds) : RegisterOpened(fd)
    \/ RegisterLazy
    \/ \E len \in PrefixLens : RegisterComposite(len)
    \/ \E c \in DOMAIN chan : Worker(c)
    \/ \E h \in Handles, off \in Offsets : Find(h, off)
    \/ FindResume
    \/ \E h \in Handles : FreeHandle(h)

SpecDesc == Init /\ [][NextDesc]_vars

-----------------------------------------------------------------------------
(* The handlers lock by lock, on two threads (passthrough.rs:178-216,      *)
(* 442-530).  PassthroughFS is shared by the threads that answer requests; *)
(* a Mutex is taken by lock() and given back when its guard is dropped.    *)

Threads == {1, 2}

\* A thread between handlers.
Idle == [pc |-> "idle", op |-> "", path |-> "", fh |-> None]

\* The mutex a thread is about to lock, or None.
Wants(t) ==
    CASE thread[t].pc = "lock_archive" -> Some(ArchiveLock)
      [] thread[t].pc = "lock_table" -> Some(TableLock)
      [] OTHER -> None

LockFrame ==
    UNCHANGED <<chan, blocked, poisoned, src, root, zip, cwd, walk, build,
                audio, dest, imported, found>>

InitLocks ==
    /\ FH_COUNTER = 0
    /\ open = << >>
    /\ fds = {}
    /\ chan = << >>
    /\ blocked = None
    /\ poisoned = FALSE
    /\ last = Ret("init", "", None, None, "Ok", NoDesc, 0)
    /\ src = << >> /\ root = << >> /\ zip = << >> /\ cwd = << >>
    /\ walk = << >> /\ build = << >> /\ audio = << >> /\ dest = << >>
    /\ imported = << >> /\ found = << >>
    /\ mutex = [m \in {TableLock, ArchiveLock} |-> 0]
    /\ thread = [t \in Threads |-> Idle]

\* A thread is handed a request: open and truncate without a handle begin
\* with files_cache.lock() (passthrough.rs:445, 191), read and release with
\* file_handles.lock() (passthrough.rs:489, 591).
Enters(t, op, path, fh) ==
    /\ thread[t] = Idle
    /\ thread' = [thread EXCEPT ![t] =
                     [pc |-> IF op \in {"open", "truncate"}
                             THEN "lock_archive" ELSE "lock_table",
                      op |-> op, path |-> path, fh |-> fh]]
    /\ UNCHANGED <<FH_COUNTER, open, fds, last, mutex>>
    /\ LockFrame

\* lock() returns: the mutex was free.  What the handler does with it up to
\* its next lock() or its return is part of the step.
Locks(t) ==
    /\ Wants(t) # None
    /\ mutex[Wants(t)[1]] = 0
    /\ mutex' = [mutex EXCEPT ![Wants(t)[1]] = t]
    /\ LET th == thread[t]
           goes(pc) == thread' = [thread EXCEPT ![t].pc = pc]
       IN  CASE th.op = "open" /\ th.pc = "lock_archive" ->
                  \* by_name, and the backing open when it is not there
                  /\ IF InArchive(th.path)
                     THEN goes("lock_table") /\ UNCHANGED fds
                     ELSE \/ \E fd \in lowest_free(fds) :
                               /\ fds' = fds \cup {fd}
                               /\ thread' = [thread EXCEPT
                                                ![t].pc = "lock_table",
                                                ![t].fh = Some(fd)]
                          \/ goes("return") /\ UNCHANGED fds
                  /\ UNCHANGED <<FH_COUNTER, open>>
             [] th.op = "open" /\ th.pc = "lock_table" ->
                  \* register_handle, inside the match on by_name
                  LET d == IF th.fh = None THEN DPath(th.path)
                           ELSE DHandle(th.fh[1])
                      r == register_handle(open, FH_COUNTER, d)
                  IN  /\ open' = r.open
                      /\ FH_COUNTER' = r.counter
                      /\ thread' = [thread EXCEPT ![t].pc = "return",
                                                  ![t].fh = Some(r.key)]
                      /\ UNCHANGED fds
             [] th.op = "truncate" ->
                  \* EACCES for a member, truncate64 otherwise
                  goes("return") /\ UNCHANGED <<FH_COUNTER, open, fds>>
             [] th.op = "read" /\ th.pc = "lock_table" ->
                  \* find(fh); a Path goes on to files_cache.lock()
                  LET r == lookup(th.fh[1])
                  IN  /\ IF r.ok /\ r.d.tag = "Path"
                         THEN goes("lock_archive")
                         ELSE goes("return")
                      /\ UNCHANGED <<FH_COUNTER, open, fds>>
             [] th.op = "read" /\ th.pc = "lock_archive" ->
                  \* by_name(name).read_to_end, then seek and read
                  goes("return") /\ UNCHANGED <<FH_COUNTER, open, fds>>
             [] th.op = "release" ->
                  \* free_handle and the close of a Handle
                  LET r == free_handle(open, th.fh[1])
                  IN  /\ open' = r.open
                      /\ fds' = IF r.ok /\ r.d.tag = "Handle"
                                 THEN fds \ {r.d.fd} ELSE fds
                      /\ goes("return")
                      /\ UNCHANGED FH_COUNTER
    /\ UNCHANGED last
    /\ LockFrame

\* The handler returns: the guards it holds are dropped at the end of the
\* match they were taken in.
Leaves(t) ==
    /\ thread[t].pc = "return"
    /\ mutex' = [m \in DOMAIN mutex |-> IF mutex[m] = t THEN 0 ELSE mutex[m]]
    /\ thread' = [thread EXCEPT ![t] = Idle]
    /\ last' = Ret(thread[t].op, thread[t].path, thread[t].fh, None, "Ok",
                   NoDesc, 0)
    /\ UNCHANGED <<FH_COUNTER, open, fds>>
    /\ LockFrame

NextLocks ==
    \/ \E t \in Threads, p \in Paths :
          HasRoom /\ Enters(t, "open", p, None)
    \/ \E t \in Threads, p \in Paths : Enters(t, "truncate", p, None)
    \/ \E t \in Threads, h \in Handles : Enters(t, "read", "", Some(h))
    \/ \E t \in Threads, h \in Handles : Enters(t, "release", "", Some(h))
    \/ \E t \in Threads : Locks(t)
    \/ \E t \in Threads : Leaves(t)

SpecLocks == InitLocks /\ [][NextLocks]_vars

-----------------------------------------------------------------------------
(* The handle table filled to the width of its counter *)

\* register_handle(Descriptor::new(path)) on a table of any size
\* (file_handles.rs:26-39).  With every value of the counter in the table
\* the loop of find_first_available finds no absent key: the call spins, and
\* the thread keeps what it holds.
TableRegister ==
    /\ Running
    /\ IF Cardinality(DOMAIN open) < HandleSpace
       THEN LET r == register_handle(open, FH_COUNTER, DPath(DescPath))
            IN  /\ open' = r.open
                /\ FH_COUNTER' = r.counter
                /\ last' = Ret("register", DescPath, Some(r.key), None, "Ok",
                               DPath(DescPath), r.skips)
                /\ UNCHANGED blocked
       ELSE /\ blocked' = <<"register">>
            /\ last' = Ret("register", DescPath, None, None, "spins",
                           NoDesc, HandleSpace)
            /\ UNCHANGED <<FH_COUNTER, open>>
    /\ UNCHANGED <<fds, chan, poisoned>>
    /\ UNCHANGED Offline

NextTable ==
    \/ TableRegister
    \/ \E h \in Handles : FreeHandle(h)
    \/ OtherMount

SpecTable == Init /\ [][NextTable]_vars

-----------------------------------------------------------------------------
(* Names and paths (std::path, src/src/utils.rs) *)

\* File names are byte strings; these are the names of the source trees.
N_B == <<66>>                           \* "B"
N_a == <<97>>                           \* "a"
N_zz == <<122, 122>>                    \* "zz"
N_1txt == <<49, 46, 116, 120, 116>>     \* "1.txt"
N_smp3 == <<115, 46, 109, 112, 51>>     \* "s.mp3"
N_dtxt == <<100, 46, 116, 120, 116>>    \* "d.txt"

Ext_txt == <<116, 120, 116>>            \* "txt"
Ext_part == <<46, 112, 97, 114, 116>>   \* ".part"

\* OsStr::cmp: byte-wise lexicographic order.
bytes_cmp(a, b) ==
    LET n == Min(Len(a), Len(b))
        diff == {i \in 1 .. n : a[i] # b[i]}
    IN  IF diff = {}
        THEN IF Len(a) < Len(b) THEN "Less"
             ELSE IF Len(a) > Len(b) THEN "Greater" ELSE "Equal"
        ELSE LET i == CHOOSE j \in diff : \A k \in diff : j <= k
             IN  IF a[i] < b[i] THEN "Less" ELSE "Greater"

\* Path::extension of a file name: the bytes after the last '.', unless the
\* name has no '.' or its only '.' is the first byte.
extension(name) ==
    LET dots == {i \in 2 .. Len(name) : name[i] = 46}
    IN  IF dots = {} THEN None
        ELSE LET i == CHOOSE j \in dots : \A k \in dots : j >= k
             IN  Some(SubSeq(name, i + 1, Len(name)))

\* A path is the sequence of its components (std::path::Component).
RootDir == [k |-> "RootDir", name |-> << >>]
CurDir == [k |-> "CurDir", name |-> << >>]
Normal(name) == [k |-> "Normal", name |-> name]

\* The relative path made of the given names.
Rel(names) == [i \in 1 .. Len(names) |-> Normal(names[i])]

\* path_to_rel (utils.rs:5-13): strip a leading "/" or a leading "./".
path_to_rel(path) ==
    IF path # << >> /\ path[1] = RootDir THEN Tail(path)
    ELSE IF path # << >> /\ path[1] = CurDir THEN Tail(path)
    ELSE path

\* Path::parent of a non-empty path and Path::file_name of a path that ends
\* in a normal component.
parent(path) == SubSeq(path, 1, Len(path) - 1)
file_name(path) == path[Len(path)].name

-----------------------------------------------------------------------------
(* The cache tree (src/src/cache.rs:18-198) *)

\* Entry::Dict and Entry::File; stat is [kind, perm].
Dict(name, contents, stat) ==
    [tag |-> "Dict", name |-> name, contents |-> contents, stat |-> stat]
File(name, stat) ==
    [tag |-> "File", name |-> name, contents |-> << >>, stat |-> stat]

\* stat_to_fuse_serializable (stat.rs:29-58): kind from the type bits,
\* perm = st_mode & 0o7777.  A source node carries its type as kind and the
\* low twelve bits as mode.
stat_to_fuse_serializable(node) ==
    [kind |-> IF node.kind = "dir" THEN "Directory" ELSE "RegularFile",
     perm |-> node.mode % (PERM_BITS + 1)]

\* a & b on naturals.
RECURSIVE BitAnd(_, _)
BitAnd(a, b) ==
    IF a = 0 \/ b = 0 THEN 0
    ELSE (a % 2) * (b % 2) + 2 * BitAnd(a \div 2, b \div 2)

\* Entry::new (cache.rs:38-64) for a path whose lstat succeeded.
Entry_new(name, node) ==
    LET stat == stat_to_fuse_serializable(node)
    IN  IF node.kind = "dir"
        THEN Dict(name, << >>, stat)
        ELSE File(name,
                  IF extension(name) = Some(Ext_txt)
                  THEN [stat EXCEPT !.perm = BitAnd(stat.perm, RO_MASK)]
                  ELSE stat)

\* The comparator of the binary search, turned around: target against entry.
search_cmp_reversed(other, a) == bytes_cmp(a, other.name)

\* The comparator of the binary search (cache.rs:103-117): (**b).cmp(a),
\* the entry's name against the component looked for.
search_cmp(other, a) == bytes_cmp(other.name, a)

\* slice::binary_search_by over contents[lo+1 .. hi]: the index of a match,
\* or 0 when the search ends without one.
RECURSIVE binary_search_by(_, _, _, _)
binary_search_by(contents, a, lo, hi) ==
    IF lo >= hi THEN 0
    ELSE LET mid == lo + ((hi - lo) \div 2)
             c == search_cmp(contents[mid + 1], a)
         IN  CASE c = "Equal" -> mid + 1
               [] c = "Less" -> binary_search_by(contents, a, mid + 1, hi)
               [] OTHER -> binary_search_by(contents, a, lo, mid)

FindOk(ix) == [ok |-> TRUE, err |-> "", ix |-> ix]
FindErr(err) == [ok |-> FALSE, err |-> err, ix |-> << >>]

\* The loop of Entry::find and Entry::find_mut (cache.rs:87-124) over the
\* components left; ix is the position of item: the child indices from the
\* root down to it.
RECURSIVE find_from(_, _, _)
find_from(item, comps, ix) ==
    IF comps = << >> THEN FindOk(ix)
    ELSE IF item.tag = "File" THEN FindErr("Can't search in a file")
    ELSE LET i == binary_search_by(item.contents, comps[1].name,
                                   0, Len(item.contents))
         IN  IF i = 0 THEN FindErr("File not found")
             ELSE find_from(item.contents[i], Tail(comps), Append(ix, i))

\* Entry::find (cache.rs:81-125) and Entry::find_mut (cache.rs:127-171).
find_entry(tree, path) == find_from(tree, path_to_rel(path), << >>)

\* The entry at a position of the tree.
RECURSIVE entry_at(_, _)
entry_at(tree, ix) ==
    IF ix = << >> THEN tree ELSE entry_at(tree.contents[ix[1]], Tail(ix))

\* contents.push(e) on the directory at a position of the tree.
RECURSIVE push_at(_, _, _)
push_at(tree, ix, e) ==
    IF ix = << >>
    THEN [tree EXCEPT !.contents = Append(@, e)]
    ELSE [tree EXCEPT !.contents[ix[1]] = push_at(@, Tail(ix), e)]

\* root.find_mut(parent)?.add_entry(p)? (cache.rs:311-315, 66-78).
add_entry(tree, path, node) ==
    LET f == find_entry(tree, parent(path))
    IN  IF ~f.ok THEN [ok |-> FALSE, err |-> f.err, tree |-> tree]
        ELSE IF entry_at(tree, f.ix).tag = "File"
        THEN [ok |-> FALSE, err |-> "Can't add entry to a file", tree |-> tree]
        ELSE [ok |-> TRUE, err |-> "",
              tree |-> push_at(tree, f.ix, Entry_new(file_name(path), node))]

-----------------------------------------------------------------------------
(* The source tree that build walks *)

\* A source node: kind "dir" or "file", the low twelve bits of st_mode, and
\* the size of a file in bytes.
Node(kind, mode, size) == [kind |-> kind, mode |-> mode, size |-> size]

\* The owner's read and search bits of a mode; build runs as the owner.
owner_r(mode) == (mode \div 256) % 2 = 1
owner_x(mode) == (mode \div 64) % 2 = 1

\* All orders in which a directory can hand out the names in S.
Orders(S) ==
    {f \in [1 .. Cardinality(S) -> S] :
        \A i, j \in 1 .. Cardinality(S) : i # j => f[i] # f[j]}

\* What each path of a source tree can be: a directory "a" that can be
\* searched and read (0o755), read only (0o644) or searched only (0o300), in it a lyric file that can or cannot
\* be read (0o644, 0o200) and an audio file longer than the prefix limit, a
\* plain file "B" (0o600), and a directory named "d.txt" (0o775).
NodeChoices ==
    [a : {"none", "dir"}, amode : {493, 420, 192},
     t : {"none", "file"}, tmode : {420, 128},
     m : {"none", "file"}, b : {"none", "file"}, d : {"none", "dir"}]

NodesOf(c) ==
    LET paths ==
            (IF c.a = "dir" THEN {<<N_a>>} ELSE {})
            \cup (IF c.a = "dir" /\ c.t = "file" THEN {<<N_a, N_1txt>>} ELSE {})
            \cup (IF c.a = "dir" /\ c.m = "file" THEN {<<N_a, N_smp3>>} ELSE {})
            \cup (IF c.b = "file" THEN {<<N_B>>} ELSE {})
            \cup (IF c.d = "dir" THEN {<<N_dtxt>>} ELSE {})
    IN  [p \in paths |->
            CASE p = <<N_a>> -> Node("dir", c.amode, 0)
              [] p = <<N_a, N_1txt>> -> Node("file", c.tmode, 40)
              [] p = <<N_a, N_smp3>> -> Node("file", 420, 20000)
              [] p = <<N_B>> -> Node("file", 384, 7)
              [] OTHER -> Node("dir", 509, 0)]

\* The names in a directory of a source tree.
ChildNames(nodes, dir) ==
    {p[Len(p)] : p \in {q \in DOMAIN nodes : Len(q) = Len(dir) + 1
                                            /\ SubSeq(q, 1, Len(dir)) = dir}}

\* The directories of a source tree, the root (<< >>) included.
DirsOf(nodes) == {<< >>} \cup {p \in DOMAIN nodes : nodes[p].kind = "dir"}

\* The source trees: the nodes, and for every directory the order in which
\* the filesystem enumerates it.
Sources ==
    UNION {
        LET nodes == NodesOf(c)
        IN  {[nodes |-> nodes, listing |-> l] :
                l \in {f \in [DirsOf(nodes) ->
                                UNION {Orders(ChildNames(nodes, d)) :
                                         d \in DirsOf(nodes)}] :
                        \A d \in DirsOf(nodes) :
                            f[d] \in Orders(ChildNames(nodes, d))}}
        : c \in {x \in NodeChoices :
                    /\ x.a = "none" => (x.t = "none" /\ x.m = "none"
                                        /\ x.amode = 493)
                    /\ x.t = "none" => x.tmode = 420}}

NoSource == [nodes |-> << >>, listing |-> << >>]

-----------------------------------------------------------------------------
(* The walker: WalkDir::new(".").sort_by(..).min_depth(1) (cache.rs:293-295) *)

\* Insert a name into a sorted sequence of names.
RECURSIVE sorted_insert(_, _)
sorted_insert(sorted, n) ==
    IF sorted = << >> THEN <<n>>
    ELSE IF bytes_cmp(n, Head(sorted)) = "Less" THEN <<n>> \o sorted
    ELSE <<Head(sorted)>> \o sorted_insert(Tail(sorted), n)

\* A walker that hands the names out in the order of the filesystem.
sort_by_nothing(names) == names

\* sort_by(|a, b| a.file_name().cmp(b.file_name())) on the entries of one
\* directory.
RECURSIVE sort_by(_)
sort_by(names) ==
    IF names = << >> THEN << >>
    ELSE sorted_insert(sort_by(Tail(names)), Head(names))

\* What the walker yields: Ok(entry) for a path, or Err for a directory it
\* cannot read.
WalkOk(p) == [ok |-> TRUE, path |-> p]
WalkErr(p) == [ok |-> FALSE, path |-> p]

\* The items for what is below dir, in the order the walker yields them:
\* each name of the sorted listing, followed by what is below it when it is
\* a directory, or by an error when that directory cannot be read.
RECURSIVE walk_names(_, _, _)
walk_names(source, dir, names) ==
    IF names = << >> THEN << >>
    ELSE LET p == Append(dir, Head(names))
         IN  <<WalkOk(p)>>
             \o (IF source.nodes[p].kind # "dir" THEN << >>
                 ELSE IF ~owner_r(source.nodes[p].mode) THEN <<WalkErr(p)>>
                 ELSE walk_names(source, p, sort_by(source.listing[p])))
             \o walk_names(source, dir, Tail(names))

WalkDir(source) == walk_names(source, << >>, sort_by(source.listing[<< >>]))

\* The path the walker hands out for an entry: "./" and its names.
WalkPath(p) == <<CurDir>> \o Rel(p)

-----------------------------------------------------------------------------
(* The archive and the copy loops (cache.rs:202-239) *)

\* The bytes of an archive member are bytes of its source file; they are
\* kept as the runs [from, to] of file positions they were copied from, in
\* the order they were written (positions count from 1).
append_run(data, from, to) ==
    IF to < from THEN data
    ELSE IF data # << >> /\ data[Len(data)].to + 1 = from
    THEN [data EXCEPT ![Len(data)].to = to]
    ELSE Append(data, [from |-> from, to |-> to])

\* The first n bytes of a file.
Prefix(n) == append_run(<< >>, 1, n)

\* The state of the loop of add_audio_to_cache: the size of the file, the
\* read position, counter, the bytes written so far, and whether it is over.
AudioStart(size) ==
    [size |-> size, pos |-> 0, counter |-> 0, data |-> << >>, done |-> FALSE]

\* One turn of the loop where the last chunk is written whole.
audio_turn_unclamped(st, n) ==
    IF st.counter >= PART_LIMIT \/ n = 0 THEN [st EXCEPT !.done = TRUE]
    ELSE [st EXCEPT !.pos = @ + n,
                    !.counter = @ + n,
                    !.data = append_run(@, st.pos + 1, st.pos + n)]

\* One turn of the loop (cache.rs:226-237); n is what file.read returned.
audio_turn(st, n) ==
    IF st.counter >= PART_LIMIT \/ n = 0 THEN [st EXCEPT !.done = TRUE]
    ELSE LET size == IF st.counter + n > PART_LIMIT
                     THEN PART_LIMIT - st.counter ELSE n
         IN  [st EXCEPT !.pos = @ + n,
                        !.counter = @ + size,
                        !.data = append_run(@, st.pos + 1, st.pos + size)]

\* The loop run to its end with reads that fill the buffer.
RECURSIVE audio_loop(_)
audio_loop(st) ==
    IF st.done THEN st.data
    ELSE audio_loop(audio_turn(st, Min(CHUNK, st.size - st.pos)))

\* An archive member: kind "file" (a lyric file), "part" (an audio prefix),
\* "tree" (files.json) or "coverdb" (cover.db); name is its path.
Member_of(kind, name, data) == [kind |-> kind, name |-> name, data |-> data]

\* p.with_extension(format!("{}.part", extension)): the name with ".part"
\* appended.
part_name(p) ==
    [p EXCEPT ![Len(p)] = SubSeq(@, 1, Len(@) - Len(extension(@)[1]))
                          \o extension(@)[1] \o Ext_part]

\* The extensions of audio files (cache.rs:338-340).
AudioExts ==
    {<<109, 112, 51>>,          \* "mp3"
     <<109, 52, 97>>,           \* "m4a"
     <<111, 103, 103>>,         \* "ogg"
     <<119, 97, 118>>,          \* "wav"
     <<119, 109, 97>>,          \* "wma"
     <<102, 108, 97, 99>>}      \* "flac"

-----------------------------------------------------------------------------
(* build (cache.rs:255-379) *)

IdleBuild ==
    [pc |-> "idle", result |-> "", err |-> "", warned |-> << >>,
     cover_feature |-> FALSE, generate_coverdb |-> FALSE,
     cache_audio |-> FALSE, cwd_known |-> TRUE, covers |-> << >>]

\* The builds main can start (main.rs:201-213): generate_coverdb is false
\* when the cover feature is compiled out.
Builds ==
    {b \in [pc : {"idle"}, result : {""}, err : {""}, warned : {<< >>},
            cover_feature : BOOLEAN, generate_coverdb : BOOLEAN,
            cache_audio : BOOLEAN, cwd_known : BOOLEAN, covers : {<< >>}] :
        b.generate_coverdb => b.cover_feature}

\* A database: the rows of Cover in table order and the IDs of the rows of
\* CoverThumbnail.
DB(cover, thumbs) == [Cover |-> cover, CoverThumbnail |-> thumbs]
NoDB == DB(<< >>, {})
NoImport == [db |-> NoDB, base |-> << >>, again |-> FALSE]
NoFound == [path |-> << >>, ok |-> FALSE, err |-> "", ix |-> << >>]

NoTree == Dict(<< >>, << >>, NoAttr)

MountIdle ==
    /\ FH_COUNTER = 0
    /\ open = << >>
    /\ fds = {}
    /\ chan = << >>
    /\ blocked = None
    /\ poisoned = FALSE
    /\ last = Ret("init", "", None, None, "Ok", NoDesc, 0)
    /\ mutex = << >>
    /\ thread = << >>

InitBuild ==
    /\ MountIdle
    /\ src \in Sources
    /\ build \in Builds
    /\ root = NoTree
    /\ zip = << >>
    /\ cwd = "orig"
    /\ walk = << >>
    /\ audio = AudioStart(0)
    /\ dest = NoDB
    /\ imported = NoImport
    /\ found = NoFound

BuildFrame == UNCHANGED <<FH_COUNTER, open, fds, chan, blocked, poisoned,
                          last, mutex, thread, src, audio, dest, imported,
                          found>>

\* build returns: Ok(()) or Err(what failed), or the thread panicked.
Ends(result, err) ==
    build' = [build EXCEPT !.pc = "done", !.result = result, !.err = err]

Warns(b, p, what) == [b EXCEPT !.warned = Append(@, [path |-> p, what |-> what])]

\* What can fail before the walk: creating the archive, the lstat of the
\* source root, CoverDB::new, and set_current_dir (cache.rs:266-292).
StartFailures == {"create", "lstat", "coverdb", "chdir"}

BuildStart ==
    /\ build.pc = "idle"
    /\ \/ \E f \in StartFailures :
             /\ f = "coverdb" => build.cover_feature
             /\ Ends("Err", f)
             /\ UNCHANGED <<root, zip, cwd, walk>>
       \/ /\ root' = Dict(<<46>>, << >>, [kind |-> "Directory", perm |-> 493])
          /\ cwd' = "src"
          /\ walk' = WalkDir(src)
          /\ build' = [build EXCEPT !.pc = "walking"]
          /\ UNCHANGED zip
    /\ BuildFrame

\* add_txt_to_cache (cache.rs:202-212): the member is started, then the file
\* is opened and copied.  A file the owner cannot read fails to open; a
\* directory opens and fails in the copy.
add_txt_to_cache(archive, p, node) ==
    LET started == Append(archive, Member_of("file", p, << >>))
    IN  IF ~owner_r(node.mode)
        THEN [ok |-> FALSE, err |-> "open", zip |-> started]
        ELSE IF node.kind = "dir"
        THEN [ok |-> FALSE, err |-> "Failed to copy into cache",
              zip |-> started]
        ELSE [ok |-> TRUE, err |-> "",
              zip |-> Append(archive, Member_of("file", p, Prefix(node.size)))]

\* add_audio_to_cache (cache.rs:214-239).
add_audio_to_cache(archive, p, node) ==
    LET started == Append(archive, Member_of("part", part_name(p), << >>))
    IN  IF ~owner_r(node.mode)
        THEN [ok |-> FALSE, err |-> "open", zip |-> started]
        ELSE IF node.kind = "dir"
        THEN [ok |-> FALSE, err |-> "read", zip |-> started]
        ELSE [ok |-> TRUE, err |-> "",
              zip |-> Append(archive,
                             Member_of("part", part_name(p),
                                       audio_loop(AudioStart(node.size))))]

\* What add_to_coverdb can come to (cache.rs:241-252): the song names a
\* cover that is added, names none, or cannot be parsed.
CoverOutcomes == {"cover", "nocover", "bad"}

\* The audio step of one turn of the entry loop (cache.rs:338-349), which
\* ends the turn.
AudioStep(b, archive, p, node) ==
    IF b.cache_audio /\ extension(p[Len(p)]) # None
       /\ extension(p[Len(p)])[1] \in AudioExts
    THEN LET r == add_audio_to_cache(archive, p, node)
         IN  /\ zip' = r.zip
             /\ build' = IF r.ok THEN b ELSE Warns(b, p, "audio")
    ELSE zip' = archive /\ build' = b

\* One turn of the entry loop (cache.rs:297-350) for the entry the walker
\* yields next.
BuildEntry ==
    /\ build.pc = "walking"
    /\ walk # << >>
    /\ LET p == Head(walk).path
           node == src.nodes[p]
           added == add_entry(root, WalkPath(p), node)
       IN  IF ~Head(walk).ok
           THEN \* Err(err) => warn and continue (cache.rs:303-306)
                /\ build' = Warns(build, p, "walk")
                /\ walk' = Tail(walk)
                /\ UNCHANGED <<root, zip, cwd>>
           ELSE IF ~added.ok
           THEN /\ Ends("Err", added.err)
                /\ UNCHANGED <<root, zip, cwd, walk>>
           ELSE IF Len(p) > 1 /\ ~owner_x(src.nodes[parent(p)].mode)
           THEN \* Entry::new: lstat(path).unwrap() fails with EACCES
                /\ Ends("panic", "lstat")
                /\ UNCHANGED <<root, zip, cwd, walk>>
           ELSE /\ root' = added.tree
                /\ walk' = Tail(walk)
                /\ UNCHANGED cwd
                /\ IF extension(p[Len(p)]) = Some(Ext_txt)
                   THEN LET r == add_txt_to_cache(zip, p, node)
                        IN  IF ~r.ok
                            THEN /\ zip' = r.zip
                                 /\ build' = Warns(build, p, "cache")
                            ELSE IF build.cover_feature /\ build.generate_coverdb
                            THEN \E c \in CoverOutcomes :
                                    IF c = "bad"
                                    THEN /\ zip' = r.zip
                                         /\ build' = Warns(build, p, "cover")
                                    ELSE AudioStep(
                                            IF c = "cover"
                                            THEN [build EXCEPT
                                                    !.covers = Append(@, p)]
                                            ELSE build,
                                            r.zip, p, node)
                            ELSE AudioStep(build, r.zip, p, node)
                   ELSE AudioStep(build, zip, p, node)
    /\ BuildFrame

\* What can fail after the walk: writing files.json, writing cover.db, and
\* finishing the archive (cache.rs:355-370).
FinishFailures == {"files.json", "cover.db", "finish"}

\* cache.rs:352-378: files.json, cover.db when the cover feature is compiled
\* in, zip.finish(), and the working directory restored when it was known.
BuildFinish ==
    /\ build.pc = "walking"
    /\ walk = << >>
    /\ LET tree == Append(zip, Member_of("tree", << >>, << >>))
           full == IF build.cover_feature
                   THEN Append(tree, Member_of("coverdb", << >>, << >>))
                   ELSE tree
       IN  \/ \E f \in FinishFailures :
                 /\ f = "cover.db" => build.cover_feature
                 /\ Ends("Err", f)
                 /\ zip' = IF f = "files.json" THEN zip
                           ELSE IF f = "cover.db" THEN tree ELSE full
                 /\ UNCHANGED cwd
           \/ /\ Ends("Ok", "")
              /\ zip' = full
              /\ cwd' = IF build.cwd_known THEN "orig" ELSE cwd
    /\ UNCHANGED <<root, walk>>
    /\ BuildFrame

\* Paths looked up in the finished tree: their names, given with a leading
\* "/", a leading "./" or neither.
FindNames ==
    {<< >>, <<N_a>>, <<N_B>>, <<N_dtxt>>, <<N_zz>>, <<N_a, N_1txt>>,
     <<N_a, N_smp3>>, <<N_a, N_zz>>, <<N_B, N_a>>, <<N_a, N_1txt, N_zz>>}
FindPrefixes == {<< >>, <<RootDir>>, <<CurDir>>}


\* struct_cache.find(path) on the tree that build wrote to files.json.  find
\* takes &self and leaves the tree as it is, so one lookup is followed on
\* each tree.
FindEntry(path) ==
    /\ build.pc = "done"
    /\ build.result = "Ok"
    /\ found = NoFound
    /\ LET f == find_entry(root, path)
       IN  found' = [path |-> path, ok |-> f.ok, err |-> f.err, ix |-> f.ix]
    /\ UNCHANGED <<FH_COUNTER, open, fds, chan, blocked, poisoned, last,
                   mutex, thread, src,
                   root, zip, cwd, walk, build, audio, dest, imported>>

NextBuild ==
    \/ BuildStart
    \/ BuildEntry
    \/ BuildFinish
    \/ \E pre \in FindPrefixes, names \in FindNames :
          FindEntry(pre \o Rel(names))

SpecBuild == InitBuild /\ [][NextBuild]_vars

-----------------------------------------------------------------------------
(* add_audio_to_cache on its own, with reads of any length (cache.rs:214-239) *)

\* Sizes of the audio file: empty, shorter than one read, around the limit.
AudioSizes == {0, 100, PART_LIMIT - 1, PART_LIMIT, PART_LIMIT + 1, 16500}

\* What file.read(&mut buf) may return while bytes are left: a full buffer
\* or a short read.
ReadChunks == {64, CHUNK}

InitAudio ==
    /\ MountIdle
    /\ src = NoSource
    /\ build = IdleBuild
    /\ root = NoTree
    /\ zip = << >>
    /\ cwd = "orig"
    /\ walk = << >>
    /\ \E size \in AudioSizes : audio = AudioStart(size)
    /\ dest = NoDB
    /\ imported = NoImport
    /\ found = NoFound

\* One turn of the loop: the test of counter, one read, one write_all.
AudioRead ==
    /\ ~audio.done
    /\ \E c \in ReadChunks :
          audio' = audio_turn(audio, Min(c, audio.size - audio.pos))
    /\ UNCHANGED <<FH_COUNTER, open, fds, chan, blocked, poisoned, last,
                   mutex, thread, src,
                   root, zip, cwd, walk, build, dest, imported, found>>

NextAudio == AudioRead

SpecAudio == InitAudio /\ [][NextAudio]_vars

-----------------------------------------------------------------------------
(* import of a cached cover.db (src/src/coverdb.rs:109-160) *)

\* A Cover row; a CoverThumbnail row is known by its ID.
Row(id, filename) == [ID |-> id, Filename |-> filename]

\* base.join(filename): an absolute filename replaces the base.
join(base, filename) ==
    IF filename # << >> /\ filename[1] = "/" THEN filename
    ELSE base \o filename

\* Cover::table.filter(Filename.eq(file)).count()
count_filename(db, file) ==
    Cardinality({i \in 1 .. Len(db.Cover) : db.Cover[i].Filename = file})

\* The ID a new Cover row gets: one more than the largest in the table.
next_id(db) ==
    LET ids == {db.Cover[i].ID : i \in 1 .. Len(db.Cover)}
    IN  IF ids = {} THEN 1 ELSE 1 + CHOOSE m \in ids : \A k \in ids : m >= k

\* The transaction of one row (coverdb.rs:129-153): the Cover row, then the
\* thumbnail found in the cached DB under the old ID; any failure rolls both
\* back.
insert_cover(db, cached, row, file) ==
    LET id == next_id(db)
    IN  IF row.ID \notin cached.CoverThumbnail \/ id \in db.CoverThumbnail
        THEN db
        ELSE DB(Append(db.Cover, Row(id, file)), db.CoverThumbnail \cup {id})

\* One row of the loop that inserts without asking whether the filename is
\* there.
import_row_always(db, cached, row, base) ==
    insert_cover(db, cached, row, join(base, row.Filename))

\* One row of the loop (coverdb.rs:123-157).
import_row(db, cached, row, base) ==
    LET file == join(base, row.Filename)
    IN  IF count_filename(db, file) = 0
        THEN insert_cover(db, cached, row, file)
        ELSE db

\* The loop over the rows of the cached DB left to import.
RECURSIVE import_rows(_, _, _, _)
import_rows(db, cached, rows, base) ==
    IF rows = << >> THEN db
    ELSE import_rows(import_row(db, cached, Head(rows), base),
                     cached, Tail(rows), base)

\* import(cache, dest, base)
import(db, cached, base) == import_rows(db, cached, cached.Cover, base)

\* Cached databases: one cover, two covers, two rows with one filename, a
\* cover whose thumbnail row is missing, and an absolute filename.
CachedDBs ==
    {DB(<<Row(1, <<"x.jpg">>)>>, {1}),
     DB(<<Row(1, <<"x.jpg">>), Row(2, <<"y.jpg">>)>>, {1, 2}),
     DB(<<Row(1, <<"x.jpg">>), Row(2, <<"x.jpg">>)>>, {1, 2}),
     DB(<<Row(1, <<"y.jpg">>)>>, {}),
     DB(<<Row(3, <<"/", "abs.jpg">>)>>, {3})}

Bases == {<<"m">>, <<"n">>}

\* Destination databases at mount: a fresh one, and one that has a row of a
\* cover already.
DestDBs == {NoDB, DB(<<Row(5, <<"m", "x.jpg">>)>>, {5})}


InitImport ==
    /\ MountIdle
    /\ src = NoSource
    /\ build = IdleBuild
    /\ root = NoTree
    /\ zip = << >>
    /\ cwd = "orig"
    /\ walk = << >>
    /\ audio = AudioStart(0)
    /\ dest \in DestDBs
    /\ imported = NoImport
    /\ found = NoFound

\* coverdb::import(cache, dest, base) at a mount.
Import(cached, base) ==
    /\ dest' = import(dest, cached, base)
    /\ imported' = [db |-> cached, base |-> base,
                    again |-> imported.db = cached /\ imported.base = base]
    /\ UNCHANGED <<FH_COUNTER, open, fds, chan, blocked, poisoned, last,
                   mutex, thread, src,
                   root, zip, cwd, walk, build, audio, found>>

NextImport == \E cached \in CachedDBs, base \in Bases : Import(cached, base)

SpecImport == InitImport /\ [][NextImport]_vars

-----------------------------------------------------------------------------
(* The cover database a build fills (coverdb.rs:65-97, cache.rs:241-252) *)

\* What parse_txt_song finds in a lyric file: it cannot be parsed ("bad"),
\* its header names no cover ("none"), or it names a cover image, given by
\* its path below the source root; the image "gone.jpg" cannot be loaded.
CoverRefs ==
    {<<"bad">>, <<"none">>, <<"a", "c.jpg">>, <<"b", "c.jpg">>,
     <<"a", "gone.jpg">>}

\* The lyric files of a walk: at most this many.
MaxLyrics == 3

\* The lyric files of a walk, each as the cover reference in its header.
RECURSIVE LyricWalks(_)
LyricWalks(n) ==
    IF n = 0 THEN {<< >>}
    ELSE LyricWalks(n - 1)
         \cup {Append(w, c) : w \in {v \in LyricWalks(n - 1) : Len(v) = n - 1},
                              c \in CoverRefs}

\* CoverDB::add (coverdb.rs:65-97): one transaction that loads the image,
\* inserts a Cover row under the filename with a NUL appended, and a
\* CoverThumbnail row under the ID of that row.
CoverDB_add(db, cover) ==
    LET id == next_id(db)
    IN  IF cover[Len(cover)] = "gone.jpg" \/ id \in db.CoverThumbnail
        THEN [ok |-> FALSE, db |-> db]
        ELSE [ok |-> TRUE,
              db |-> DB(Append(db.Cover, Row(id, Append(cover, "NUL"))),
                        db.CoverThumbnail \cup {id})]

\* add_to_coverdb (cache.rs:241-252).
add_to_coverdb(db, ref) ==
    IF ref = <<"bad">> THEN [ok |-> FALSE, db |-> db]
    ELSE IF ref = <<"none">> THEN [ok |-> TRUE, db |-> db]
    ELSE CoverDB_add(db, ref)

\* A build with generate_coverdb, at the start of its walk over lyric files
\* that were all cached; the database is the empty one of CoverDB::new.
InitCover ==
    /\ MountIdle
    /\ src = NoSource
    /\ build = [IdleBuild EXCEPT !.pc = "walking", !.cover_feature = TRUE,
                                 !.generate_coverdb = TRUE]
    /\ root = NoTree
    /\ zip = << >>
    /\ cwd = "src"
    /\ walk \in LyricWalks(MaxLyrics)
    /\ audio = AudioStart(0)
    /\ dest = NoDB
    /\ imported = NoImport
    /\ found = NoFound

\* The cover step of one turn of the entry loop (cache.rs:325-335).
AddToCoverdb ==
    /\ build.pc = "walking"
    /\ walk # << >>
    /\ LET r == add_to_coverdb(dest, Head(walk))
       IN  /\ dest' = r.db
           /\ build' = IF r.ok THEN build
                        ELSE Warns(build, Head(walk), "cover")
    /\ walk' = Tail(walk)
    /\ UNCHANGED <<FH_COUNTER, open, fds, chan, blocked, poisoned, last,
                   mutex, thread, src,
                   root, zip, cwd, audio, imported, found>>

NextCover == AddToCoverdb

SpecCover == InitCover /\ [][NextCover]_vars

-----------------------------------------------------------------------------
(* Properties of the handle table under the handlers (Spec) *)

RegisterOps == {"open", "opendir"}

\* Handle-taking handlers other than release and releasedir.
HandleOps == {"getattr", "truncate", "read", "write", "flush", "fsync",
              "fsyncdir", "readdir"}

\* The last step registered a handle.
Registered == last.op \in RegisterOps /\ last.ret = "Ok"

\* C1: every register_handle made by open or opendir, interleaved in any
\* order with release and releasedir (and with registrations of another mount
\* on the shared counter), returns a key that was absent from the table when
\* it was inserted, and leaves every descriptor that was live in place.
C1_RegisterTakesAbsentKey ==
    [][Registered' =>
          /\ last'.fh[1] \notin DOMAIN open
          /\ DOMAIN open' = DOMAIN open \cup {last'.fh[1]}
          /\ \A k \in DOMAIN open : open'[k] = open[k]]_vars

\* A register that had to pass over a live key after the counter wrapped.
C1_Witness == Registered /\ last.skips > 0 /\ Cardinality(DOMAIN open) = 2

\* C2: no open or opendir returns the handle 0.
C2_HandleZeroNeverIssued == Registered => last.fh[1] # 0

\* C3: release and releasedir of a handle in the table remove it and hand its
\* descriptor to the handler, leaving the other handles alone; of a handle not
\* in the table they return EBADF and leave the table unchanged; so a release
\* that follows a successful release of the same handle returns EBADF.
C3_FreeSucceedsOnce ==
    [][last'.op \in ReleaseOps =>
          LET h == last'.fh[1]
          IN  /\ h \in DOMAIN open =>
                    /\ last'.ret # "EBADF"
                    /\ last'.d = open[h]
                    /\ DOMAIN open' = DOMAIN open \ {h}
                    /\ \A k \in DOMAIN open' : open'[k] = open[k]
              /\ h \notin DOMAIN open =>
                    /\ last'.ret = "EBADF"
                    /\ open' = open
              /\ last'.again => last'.ret = "EBADF" /\ open' = open]_vars

\* A second release of a handle, right after the release that freed it.
C3_Witness ==
    last.op \in ReleaseOps /\ last.again /\ last.ret = "EBADF"

\* C4: a handle-taking handler called with a handle that is not in the table
\* returns EBADF.
C4_StaleHandleIsEBADF ==
    /\ (last.op \in HandleOps /\ last.fh # None /\ last.fh[1] \notin DOMAIN open)
          => last.ret = "EBADF"
    /\ (last.op \in ReleaseOps /\ last.was = "None") => last.ret = "EBADF"

-----------------------------------------------------------------------------
(* Properties of find and resolve (SpecDesc) *)

\* The last step is a find that returned (it is neither parked nor panicked).
FindReturned == last.op = "find" /\ last.ret \notin {"waiting", "panic"}

C6_LazyResolvesToHandleOrError ==
    [][(last'.op = "find" /\ last'.was = "Lazy" /\ last'.ret # "waiting") =>
          LET h == last'.fh[1]
              c == open[h].rx
              m == chan[c].msg
          IN  /\ chan[c].st = "sent"
              /\ chan'[c].st = "received"
              /\ last'.recv = c
              /\ m.ok => /\ last'.ret = "Ok"
                         /\ open'[h] = DHandle(m.fd)
                         /\ last'.d = DHandle(m.fd)
              /\ ~m.ok => /\ last'.ret = "Handle failed to open"
                          /\ last'.errno = m.errno
                          /\ open'[h] = DError(m.errno)
              /\ open'[h].tag # "Lazy"]_vars

\* A find that was parked on a Lazy descriptor and returned the open's errno.
C6_Witness ==
    /\ FindReturned
    /\ last.was = "Lazy"
    /\ last.waited
    /\ last.ret = "Handle failed to open"
    /\ open[last.fh[1]].tag = "Error"

\* C7: a find on an Error(errno) descriptor fails with that errno, and a find
\* on a Path, Handle or File descriptor succeeds and yields it; neither is
\* ever parked, receives from a channel or changes the descriptor, whatever
\* the offset.
C7_ErrorStickyOthersTerminal ==
    [][(last'.op = "find" /\ last'.was \in {"Error", "Path", "Handle", "File"}) =>
          LET h == last'.fh[1]
          IN  /\ open' = open
              /\ chan' = chan
              /\ blocked' = None
              /\ last'.recv = 0
              /\ last'.was = "Error" =>
                    /\ last'.ret = "Handle failed to open"
                    /\ last'.errno = open[h].errno
              /\ last'.was # "Error" =>
                    /\ last'.ret = "Ok"
                    /\ last'.d = open[h]]_vars

\* A find at the limit offset on a descriptor that was already Error.
C7_Witness ==
    /\ FindReturned
    /\ last.was = "Error"
    /\ last.off = Some(PREFIX_LIMIT)
    /\ last.ret = "Handle failed to open"

\* C8: no channel is received from more than once, and once it has been
\* received from no descriptor in the table holds its receiver (the bare
\* descriptor is a Handle or an Error, the Composite has a Handle tail or is
\* an Error); a find on a descriptor that holds no receiver returns at once
\* and changes neither the descriptor nor any channel.
C8_ChannelReceivedOnce ==
    /\ [](\A c \in DOMAIN chan :
             /\ chan[c].recvs <= 1
             /\ chan[c].recvs = 1 =>
                   \A h \in DOMAIN open : RxOf(open[h]) # c)
    /\ [][(/\ last'.op = "find"
           /\ last'.fh[1] \in DOMAIN open
           /\ RxOf(open[last'.fh[1]]) = 0) =>
             /\ last'.ret # "waiting"
             /\ last'.recv = 0
             /\ open' = open
             /\ chan' = chan]_vars

\* A find at the limit offset on a Composite whose tail was resolved by an
\* earlier find.
C8_Witness ==
    /\ FindReturned
    /\ last.was = "Composite"
    /\ last.recv = 0
    /\ last.off = Some(PREFIX_LIMIT)
    /\ open[last.fh[1]].tag = "Composite"
    /\ open[last.fh[1]].handle.tag = "Handle"
    /\ \E c \in DOMAIN chan : chan[c].recvs = 1

\* C9: a find on a Composite with a Lazy tail, with no offset or an offset
\* below the length of its prefix, returns Ok without being parked and without
\* receiving from the channel, and leaves the descriptor as it was.
C9_BelowPrefixNeverWaits ==
    [][(/\ last'.op = "find"
        /\ last'.was = "Composite"
        /\ open[last'.fh[1]].handle.tag = "Lazy"
        /\ unwrap_or(last'.off, 0) < open[last'.fh[1]].len) =>
          /\ last'.ret = "Ok"
          /\ last'.recv = 0
          /\ blocked' = None
          /\ open' = open
          /\ chan' = chan]_vars

\* A find just below a full prefix while the worker has not sent yet.
C9_Witness ==
    /\ FindReturned
    /\ last.ret = "Ok"
    /\ last.off = Some(PREFIX_LIMIT - 1)
    /\ open[last.fh[1]].tag = "Composite"
    /\ open[last.fh[1]].len = PREFIX_LIMIT
    /\ open[last.fh[1]].handle.tag = "Lazy"
    /\ chan[open[last.fh[1]].handle.rx].st = "pending"

\* C10: after a find on a Composite with an offset at or beyond the length of
\* its prefix has returned, the tail of the Composite is a Handle.
C10_TailResolvedFromPrefixLength ==
    (/\ FindReturned
     /\ last.was = "Composite"
     /\ last.off # None
     /\ open[last.fh[1]].tag = "Composite"
     /\ last.off[1] >= open[last.fh[1]].len)
       => open[last.fh[1]].handle.tag = "Handle"

-----------------------------------------------------------------------------
(* Properties of the handlers and of the descriptors they leave behind *)

\* The calls a handler makes into the backing store.
BackingCalls ==
    {"open", "read", "write", "ftruncate", "truncate", "close", "fstat",
     "fsync", "flush", "readdir", "mkdir", "unlink"}

\* The handle the last call was made on is in the table with a Path
\* descriptor.
OnPath == last.fh # None /\ TagOf(open, last.fh[1]) = "Path"

\* C11: a handler that makes a blocking call holds no mutex while it makes
\* it: neither mutex around a call into the backing store, and not the table's
\* mutex around a read of the archive.
C11_NoLockAcrossBlocking ==
    last.sys # "" =>
        last.held \ (IF last.sys = "archive" THEN {ArchiveLock} ELSE {}) = {}

\* C12: once every handle has been freed and every lazy open has finished,
\* no OS descriptor opened for a handle is still open.
C12_NoDescriptorOutlivesItsHandle ==
    (/\ DOMAIN open = {}
     /\ \A c \in DOMAIN chan : chan[c].st # "pending")
       => fds = {}

\* C13: open of a path with a member in the archive registers a Path
\* descriptor for it under a new handle and makes no call into the backing
\* store; open of any other path either opens a new OS descriptor fd and
\* registers Handle(fd) under a new handle, or returns the errno of the failed
\* backing open and leaves table, counter and OS descriptors as they were.
C13_OpenRoutesOnArchive ==
    [][last'.op = "open" =>
          LET p == last'.path
          IN  /\ InArchive(p) =>
                    /\ last'.ret = "Ok"
                    /\ last'.sys = ""
                    /\ fds' = fds
                    /\ last'.fh[1] \notin DOMAIN open
                    /\ open' = insert(open, last'.fh[1], DPath(p))
              /\ ~InArchive(p) =>
                    \/ /\ last'.ret = "Ok"
                       /\ last'.sys = "open"
                       /\ last'.fh[1] \notin DOMAIN open
                       /\ \E fd \in Fds \ fds :
                             /\ fds' = fds \cup {fd}
                             /\ open' = insert(open, last'.fh[1], DHandle(fd))
                    \/ /\ last'.ret \in OpenErrnos
                       /\ last'.fh = None
                       /\ UNCHANGED <<open, fds, FH_COUNTER>>]_vars

\* A backing open that failed while the table held a cached descriptor and a
\* real one.
C13_Witness ==
    /\ last.op = "open"
    /\ last.ret \in OpenErrnos
    /\ \E h \in DOMAIN open : open[h].tag = "Path" /\ InArchive(open[h].path)
    /\ \E h \in DOMAIN open : open[h].tag = "Handle"

\* C14: an opendir that succeeds was given a path that is a directory of the
\* cache tree.
C14_OpendirOnlyDirectories ==
    (last.op = "opendir" /\ last.ret = "Ok") => TreeKind(last.path) = "Dict"

\* C15: readdir(p, h), with h the handle opendir(p) registered for a
\* directory p and not yet released, succeeds.
C15_ReaddirOfOpendirHandle ==
    (/\ last.op = "readdir"
     /\ OnPath
     /\ open[last.fh[1]] = DPath(last.path)
     /\ TreeKind(last.path) = "Dict")
       => last.ret = "Ok"

\* C16: read on a handle whose Path descriptor denotes a directory returns
\* EISDIR.
C16_ReadOnDirectoryIsEISDIR ==
    (/\ last.op = "read"
     /\ OnPath
     /\ TreeKind(open[last.fh[1]].path) = "Dict")
       => last.ret = "EISDIR"

\* C17: read(h, off, size) on a handle whose Path descriptor names a member
\* of the archive hands back exactly the bytes of the member at the positions
\* off <= i < min(off + size, len), nothing when off >= len, makes no call
\* into the backing store and leaves the table as it was.
C17_ReadReturnsMemberSlice ==
    [][(/\ last'.op = "read"
        /\ TagOf(open, last'.fh[1]) = "Path"
        /\ InArchive(open[last'.fh[1]].path)) =>
          LET buf == Member(open[last'.fh[1]].path)
              off == last'.off[1]
              hi == Min(off + last'.size, Len(buf))
              n == IF hi > off THEN hi - off ELSE 0
          IN  /\ last'.ret = "Ok"
              /\ last'.data = [i \in 1 .. n |-> buf[off + i]]
              /\ off >= Len(buf) => last'.data = << >>
              /\ last'.sys \notin BackingCalls
              /\ UNCHANGED <<open, fds>>]_vars

\* A read from inside the member that asks for more than is left.
C17_Witness ==
    /\ last.op = "read"
    /\ last.off = Some(1)
    /\ last.size = 1024
    /\ last.data = <<121, 122>>

\* C18: write on a handle whose descriptor is in the table and is not a
\* Handle returns EACCES, makes no call into the backing store and changes
\* nothing.
C18_WriteOnCachedIsEACCES ==
    [][(/\ last'.op = "write"
        /\ TagOf(open, last'.fh[1]) \notin {"None", "Handle"}) =>
          /\ last'.ret = "EACCES"
          /\ last'.sys = ""
          /\ UNCHANGED <<open, fds>>]_vars

\* A write refused on the handle of a cached file.
C18_Witness ==
    /\ last.op = "write"
    /\ last.ret = "EACCES"
    /\ OnPath
    /\ InArchive(open[last.fh[1]].path)

\* C19: truncate of a path with a member in the archive, given no handle,
\* and truncate on a handle whose Path descriptor names such a member, both
\* return EACCES, make no call into the backing store and change nothing.
C19_TruncateOfCachedIsEACCES ==
    [][(/\ last'.op = "truncate"
        /\ \/ last'.fh = None /\ InArchive(last'.path)
           \/ /\ last'.fh # None
              /\ TagOf(open, last'.fh[1]) = "Path"
              /\ InArchive(open[last'.fh[1]].path)) =>
          /\ last'.ret = "EACCES"
          /\ last'.sys = ""
          /\ UNCHANGED <<open, fds>>]_vars

\* A truncate refused on the handle of a cached file.
C19_Witness ==
    /\ last.op = "truncate"
    /\ last.ret = "EACCES"
    /\ last.fh # None
    /\ TagOf(open, last.fh[1]) = "Path"
    /\ InArchive(open[last.fh[1]].path)

\* C20: each of the thirteen handlers that would change the tree returns
\* ENOSYS, makes no call into the backing store and leaves the table, the
\* counter and the OS descriptors as they were, in every state.
C20_MutatorsAreENOSYS ==
    [][last'.op \in MutatorOps =>
          /\ last'.ret = "ENOSYS"
          /\ last'.sys = ""
          /\ UNCHANGED <<FH_COUNTER, open, fds, chan, blocked, poisoned>>]_vars

\* A mutator answering after another handler's panic, with handles live.
C20_Witness ==
    /\ last.op \in MutatorOps
    /\ last.ret = "ENOSYS"
    /\ poisoned
    /\ open # << >>
    /\ fds # {}

\* C21: getattr calls fstat only when it is given a handle whose descriptor
\* is a Handle; given no handle, or a handle whose descriptor is a Path or a
\* File, it makes no call into the backing store and returns the stat the
\* cache tree records for the path, or ENOENT when the tree has no entry for
\* the path; it changes nothing.
C21_GetattrServesFromTree ==
    [][last'.op = "getattr" =>
          LET tag == IF last'.fh = None THEN "NoHandle"
                     ELSE TagOf(open, last'.fh[1])
          IN  /\ last'.sys \in BackingCalls =>
                    last'.sys = "fstat" /\ tag = "Handle"
              /\ tag \in {"NoHandle", "Path", "File"} =>
                    /\ last'.sys = ""
                    /\ TreeKind(last'.path) # "None" =>
                          /\ last'.ret = "Ok"
                          /\ last'.attr = TreeStat(last'.path)
                    /\ TreeKind(last'.path) = "None" =>
                          /\ last'.ret = "ENOENT"
                          /\ last'.attr = NoAttr
              /\ UNCHANGED <<open, fds>>]_vars

\* A getattr on the handle of a cached file, answered from the tree while a
\* real descriptor is open as well.
C21_Witness ==
    /\ last.op = "getattr"
    /\ OnPath
    /\ last.ret = "Ok"
    /\ last.attr = TreeStat(last.path)
    /\ last.attr.kind = "RegularFile"
    /\ fds # {}

-----------------------------------------------------------------------------
(* Properties of build and of the tree it writes (SpecBuild) *)

\* The entries of a tree below e, each with the names that lead to it from
\* the root; at is the path of e.
RECURSIVE EntriesOf(_, _)
EntriesOf(e, at) ==
    UNION {LET c == e.contents[i]
           IN  {[path |-> Append(at, c.name), entry |-> c]}
               \cup EntriesOf(c, Append(at, c.name))
           : i \in 1 .. Len(e.contents)}

\* The children of an entry are in strictly ascending order of their names,
\* and so are those of every entry below it.
RECURSIVE AllSorted(_)
AllSorted(e) ==
    /\ \A i \in 1 .. Len(e.contents) - 1 :
          bytes_cmp(e.contents[i].name, e.contents[i + 1].name) = "Less"
    /\ \A i \in 1 .. Len(e.contents) : AllSorted(e.contents[i])

\* The paths of a source that a walk can reach: those below directories
\* that can be read.
Reachable(nodes) ==
    {p \in DOMAIN nodes :
        \A k \in 1 .. Len(p) - 1 : owner_r(nodes[SubSeq(p, 1, k)].mode)}

\* C22: at every point of a build each children list of the tree is sorted
\* strictly ascending by name, byte-wise, whatever the order in which the
\* filesystem lists a directory; the finished tree has exactly the reachable
\* paths of the source, each as a Dict or a File as the source has it, so
\* that sorted lists leave one tree for a set of source paths.
C22_ChildrenSorted ==
    /\ AllSorted(root)
    /\ (build.pc = "done" /\ build.result = "Ok") =>
          {[path |-> x.path, tag |-> x.entry.tag] : x \in EntriesOf(root, << >>)}
          = {[path |-> p,
              tag |-> IF src.nodes[p].kind = "dir" THEN "Dict" ELSE "File"] :
                p \in Reachable(src.nodes)}

\* A finished build of a source whose root lists "a" before "B" and whose
\* directory "a" lists "s.mp3" before "1.txt".
C22_Witness ==
    /\ build.pc = "done"
    /\ build.result = "Ok"
    /\ <<N_a, N_smp3>> \in DOMAIN src.nodes
    /\ src.listing[<< >>] = <<N_a, N_B>>
    /\ src.listing[<<N_a>>] = <<N_smp3, N_1txt>>
    /\ Len(root.contents) = 2
    /\ Len(root.contents[2].contents) = 2

\* Descent by linear search: at each directory the first child that has the
\* name, whatever the order of the children.
RECURSIVE linear_find(_, _, _)
linear_find(item, names, ix) ==
    IF names = << >> THEN FindOk(ix)
    ELSE IF item.tag = "File" THEN FindErr("Can't search in a file")
    ELSE LET hits == {i \in 1 .. Len(item.contents) :
                        item.contents[i].name = names[1]}
         IN  IF hits = {} THEN FindErr("File not found")
             ELSE LET i == CHOOSE j \in hits : \A k \in hits : j <= k
                  IN  linear_find(item.contents[i], Tail(names),
                                  Append(ix, i))

\* C23: on the tree of a finished build, find of the names of a path given
\* with a leading "/", a leading "./" or neither comes to what a linear
\* descent by these names comes to: the entry, the root for no names, "File
\* not found" for a missing component, "Can't search in a file" below a File.
C23_FindIsLinearSearch ==
    \A pre \in FindPrefixes, names \in FindNames :
        found.path = pre \o Rel(names) /\ found # NoFound =>
            /\ [ok |-> found.ok, err |-> found.err, ix |-> found.ix]
               = linear_find(root, names, << >>)
            /\ names = << >> => (found.ok /\ found.ix = << >>)

\* "/a/1.txt" found as the first child of the second child of the root.
C23_Witness ==
    /\ found.path = <<RootDir>> \o Rel(<<N_a, N_1txt>>)
    /\ found.ok
    /\ found.ix = <<2, 1>>
    /\ Len(root.contents) = 3

\* A name ends in ".txt".
EndsInTxt(name) ==
    /\ Len(name) >= 4
    /\ SubSeq(name, Len(name) - 3, Len(name)) = <<46>> \o Ext_txt

\* C24: every entry of the tree whose name ends in ".txt", file or
\* directory, has the permission bits of its source and 0o5555; every other
\* entry has the low twelve bits of the source's st_mode.
C24_TxtEntriesReadOnly ==
    \A x \in EntriesOf(root, << >>) :
        x.entry.stat.perm =
            IF EndsInTxt(x.entry.name)
            THEN BitAnd(src.nodes[x.path].mode % (PERM_BITS + 1), RO_MASK)
            ELSE src.nodes[x.path].mode % (PERM_BITS + 1)

\* C26: a turn of the entry loop, whatever fails for its entry, leaves the
\* build walking with that entry behind it, so that the build goes on to the
\* remaining entries and to files.json.
C26_EntryFailuresSkipped ==
    [][(build.pc = "walking" /\ walk # << >>) =>
          (build'.pc = "walking" /\ walk' = Tail(walk))]_vars

\* C27: a lyric file whose caching failed is an entry of the tree and the
\* archive has no member of its name, so that an open on the mount finds no
\* cached bytes for it.
C27_FailedLyricHasNoMember ==
    \A i \in 1 .. Len(build.warned) :
        (build.warned[i].what = "cache"
         /\ src.nodes[build.warned[i].path].kind = "file") =>
            /\ \E x \in EntriesOf(root, << >>) : x.path = build.warned[i].path
            /\ \A j \in 1 .. Len(zip) : zip[j].name # build.warned[i].path

\* C28: when build has returned, with Ok or with an error, and the working
\* directory was known at its start, the working directory is that one.
C28_WorkingDirRestored ==
    (build.pc = "done" /\ build.result \in {"Ok", "Err"} /\ build.cwd_known)
        => cwd = "orig"

\* C29: the archive has a cover.db member only in a build with
\* generate_coverdb.
C29_CoverDbOnlyWhenEnabled ==
    \A j \in 1 .. Len(zip) : zip[j].kind = "coverdb" => build.generate_coverdb

-----------------------------------------------------------------------------
(* Properties of the audio prefix (SpecAudio) *)

\* C25: however the reads are split, the bytes written to the .part member
\* are at every turn the first counter bytes of the file in order, and when
\* the loop is over counter is the smaller of 16384 and the size of the file.
C25_PartIsPrefix ==
    /\ audio.data = IF audio.counter = 0 THEN << >>
                    ELSE <<[from |-> 1, to |-> audio.counter]>>
    /\ audio.done =>
          audio.counter = IF audio.size < 16384 THEN audio.size ELSE 16384

\* The loop is over for a file longer than the limit, and its last read went
\* past the limit.
C25_Witness ==
    /\ audio.done
    /\ audio.size > PART_LIMIT
    /\ audio.pos > PART_LIMIT
    /\ audio.counter = PART_LIMIT

-----------------------------------------------------------------------------
(* Properties of the import of a cached cover.db (SpecImport) *)

\* The rewritten filenames of the rows of a cached database.
ImportFiles(db, base) ==
    {join(base, db.Cover[i].Filename) : i \in 1 .. Len(db.Cover)}

\* C30: an import adds no row for a filename that the destination has, adds
\* at most one row for a filename that it has not, keeps the rows that were
\* there, and importing the same database with the same base once more
\* leaves the destination as it is.
C30_ImportIsIdempotent ==
    [][LET db == imported'.db
           base == imported'.base
       IN  /\ \A file \in ImportFiles(db, base) :
                 count_filename(dest', file)
                 = IF count_filename(dest, file) > 0
                   THEN count_filename(dest, file)
                   ELSE IF count_filename(dest', file) = 0 THEN 0 ELSE 1
           /\ SubSeq(dest'.Cover, 1, Len(dest.Cover)) = dest.Cover
           /\ \A i \in Len(dest.Cover) + 1 .. Len(dest'.Cover) :
                 dest'.Cover[i].Filename \in ImportFiles(db, base)
           /\ import(dest', db, base) = dest']_vars

\* The same database was imported twice running with the same base, into a
\* destination that had a row of one of its covers and now has both.
C30_Witness ==
    /\ imported.again
    /\ Len(imported.db.Cover) = 2
    /\ imported.base = <<"m">>
    /\ Len(dest.Cover) = 2
    /\ dest.Cover[1] = Row(5, <<"m", "x.jpg">>)
    /\ dest.Cover[2].Filename = <<"m", "y.jpg">>

-----------------------------------------------------------------------------
(* Properties of the cover database a build fills (SpecCover) *)

\* C31: the database of a build has at most one Cover row for a filename,
\* and as many CoverThumbnail rows as Cover rows, however many lyric files
\* name the cover.
C31_OneRowPerCover ==
    /\ \A i, j \in 1 .. Len(dest.Cover) :
          dest.Cover[i].Filename = dest.Cover[j].Filename => i = j
    /\ Cardinality(dest.CoverThumbnail) = Len(dest.Cover)

-----------------------------------------------------------------------------
(* Properties of the table at the width of its counter (SpecTable) *)

\* C32: with the counter wrapping at HandleSpace, a register_handle on a
\* table that holds fewer than HandleSpace handles returns: the keys it
\* passed over are the values of the counter from where it stood, each of
\* them in the table, the key it returns is the next value and was absent,
\* and the counter is left one past it.  On a full table it does not return.
C32_WrappedRegisterSkipsPresent ==
    [][last'.op = "register" =>
          IF Cardinality(DOMAIN open) < HandleSpace
          THEN /\ last'.ret = "Ok"
               /\ last'.skips < HandleSpace
               /\ \A k \in 0 .. last'.skips - 1 :
                     (FH_COUNTER + k) % HandleSpace \in DOMAIN open
               /\ last'.fh = Some((FH_COUNTER + last'.skips) % HandleSpace)
               /\ last'.fh[1] \notin DOMAIN open
               /\ DOMAIN open' = DOMAIN open \cup {last'.fh[1]}
               /\ FH_COUNTER' = (last'.fh[1] + 1) % HandleSpace
          ELSE last'.ret = "spins" /\ open' = open]_vars

\* A register that came back to handle 2 after the counter had wrapped to 0
\* and the handles 0 and 1 were still in the table.
C32_Witness ==
    /\ last.op = "register"
    /\ last.ret = "Ok"
    /\ last.skips = 2
    /\ last.fh = Some(2)
    /\ FH_COUNTER = 0
    /\ DOMAIN open = {0, 1, 2}

-----------------------------------------------------------------------------
(* Properties of the handlers on two threads (SpecLocks) *)

\* C33: no two threads each wait for a mutex that the other holds, so that
\* an open or a truncate without a handle and a read of a cached handle that
\* run together both come to their end.
C33_NoDeadlock ==
    \A t, u \in Threads :
        ~ /\ t # u
          /\ Wants(t) # None /\ Wants(u) # None
          /\ mutex[Wants(t)[1]] = u
          /\ mutex[Wants(u)[1]] = t

-----------------------------------------------------------------------------
(* The key set of the handle table across the handlers (Spec) *)

\* The key set after a handler that returned ret for the handle fh: a
\* successful open or opendir adds the key it returns, a successful release
\* or releasedir removes the key it was given, anything else leaves the set.
KeysAfter(op, fh, ret) ==
    IF ret = "Ok" /\ op \in {"open", "opendir"} THEN DOMAIN open \cup {fh[1]}
    ELSE IF ret = "Ok" /\ op \in ReleaseOps THEN DOMAIN open \ {fh[1]}
    ELSE DOMAIN open

\* C34: the keys of the handle table are the handles that successful opens
\* and opendirs returned and that no successful release or releasedir was
\* given yet: getattr, read, write, flush, fsync, fsyncdir, truncate,
\* readdir and every operation that fails leave the key set as it was.
C34_KeySetFollowsOpenAndRelease ==
    [][DOMAIN open' = KeysAfter(last'.op, last'.fh, last'.ret)]_vars

\* The key set after a handler, as free_handle leaves it: release and
\* releasedir remove the key they were given before the descriptor is
\* closed, so the key goes whatever the close answers, and stays only when
\* there was none (EBADF).
KeysAfterFree(op, fh, ret) ==
    IF op \in ReleaseOps /\ ret # "EBADF" THEN DOMAIN open \ {fh[1]}
    ELSE KeysAfter(op, fh, ret)

\* C34, amended: the keys of the handle table are the handles that successful
\* opens and opendirs returned and that no release or releasedir was given
\* yet, successful or failing in its close; every other operation, and every
\* other failing one, leaves the key set as it was.
C34_KeySetFollowsOpenAndFree ==
    [][DOMAIN open' = KeysAfterFree(last'.op, last'.fh, last'.ret)]_vars

\* A release whose close failed, with its handle gone from the table.
C34_Witness ==
    /\ last.op = "release"
    /\ last.was = "Handle"
    /\ last.ret \notin {"Ok", "EBADF"}
    /\ last.fh[1] \notin DOMAIN open

-----------------------------------------------------------------------------
(* A Composite whose lazy open failed (SpecDesc) *)

\* C35: a find on a Composite that receives the failure of its lazy open (it
\* asked for an offset at or past the prefix limit) fails with the errno of
\* the open and leaves Error(errno) in place of the Composite, prefix and
\* all; a find on an Error descriptor fails with its errno at every offset,
\* those inside the former prefix too, and the descriptor stays that Error
\* until free_handle takes the handle out of the table.
C35_FailedCompositeStaysError ==
    /\ [][(/\ last'.op = "find"
           /\ last'.ret \notin {"waiting", "panic"}
           /\ last'.fh[1] \in DOMAIN open) =>
             LET h == last'.fh[1]
                 c == last'.recv
             IN  /\ (/\ open[h].tag = "Composite"
                     /\ c # 0
                     /\ ~chan[c].msg.ok) =>
                        /\ wants_tail(last'.off)
                        /\ last'.ret = "Handle failed to open"
                        /\ last'.errno = chan[c].msg.errno
                        /\ open' = [open EXCEPT ![h] = DError(chan[c].msg.errno)]
                 /\ open[h].tag = "Error" =>
                        /\ last'.ret = "Handle failed to open"
                        /\ last'.errno = open[h].errno
                        /\ open' = open]_vars
    /\ [][\A h \in DOMAIN open :
             open[h].tag = "Error" =>
                IF h \in DOMAIN open'
                THEN open'[h] = open[h]
                ELSE last'.op = "free" /\ last'.fh = Some(h)]_vars

\* The find past the prefix limit that received the failed open of a
\* Composite and left an Error in its place.
C35_Witness ==
    /\ FindReturned
    /\ last.was = "Composite"
    /\ last.off = Some(PREFIX_LIMIT)
    /\ last.recv # 0
    /\ last.ret = "Handle failed to open"
    /\ open[last.fh[1]] = DError(last.errno)

-----------------------------------------------------------------------------
(* The order of the handles issued (SpecTable) *)

\* The number of fetch_add calls of the step that led to last'.
FetchAdds ==
    CASE last'.op = "register" /\ last'.ret = "Ok" -> last'.skips + 1
      [] last'.op = "other" -> 1
      [] OTHER -> 0

\* C36: handles are issued in the order of the process-wide counter.  As
\* long as the fetch_adds of a register have not passed the top of the
\* counter, the handle it issues is at or above the counter it started from
\* and the counter is left just above the handle; a handle issued right after
\* another is greater than it; and no step, the register of another table
\* included, takes the counter down except by passing the top.  So before the
\* counter wraps every handle issued is greater than all issued before it,
\* freed or not.
C36_IssuedInCounterOrder ==
    [][/\ (/\ last'.op = "register"
           /\ last'.ret = "Ok"
           /\ FH_COUNTER + last'.skips < HandleSpace) =>
             LET key == last'.fh[1]
             IN  /\ key >= FH_COUNTER
                 /\ FH_COUNTER' = (key + 1) % HandleSpace
                 /\ (/\ last.op = "register"
                     /\ last.ret = "Ok"
                     /\ last.fh[1] < FH_COUNTER) => key > last.fh[1]
       /\ IF FH_COUNTER + FetchAdds < HandleSpace
          THEN FH_COUNTER' = FH_COUNTER + FetchAdds
          ELSE FH_COUNTER' = (FH_COUNTER + FetchAdds) % HandleSpace]_vars

\* Handle 1 issued after handle 0 was issued and freed: the freed value is
\* not in the table and was not taken again.
C36_Witness ==
    /\ last.op = "register"
    /\ last.ret = "Ok"
    /\ last.fh = Some(1)
    /\ last.skips = 0
    /\ FH_COUNTER = 2
    /\ DOMAIN open = {1}

-----------------------------------------------------------------------------
(* The parent of every entry of the walk (SpecBuild) *)

\* What find_mut and add_entry answer when the parent is not a directory of
\* the tree (cache.rs:143, 165, and add_entry on a File).
ParentFailures ==
    {"File not found", "Can't search in a file", "Can't add entry to a file"}

\* C37: whenever the walk of a build is about to hand over an entry, find_mut
\* on the parent of its path succeeds and yields a Dict that is in the tree
\* by then, and no build ends with "File not found", "Can't search in a
\* file" or "Can't add entry to a file".
C37_ParentAlreadyInTree ==
    /\ (build.pc = "walking" /\ walk # << >> /\ Head(walk).ok) =>
          LET f == find_entry(root, parent(WalkPath(Head(walk).path)))
          IN  /\ f.ok
              /\ entry_at(root, f.ix).tag = "Dict"
    /\ build.pc = "done" => build.err \notin ParentFailures

\* A walk with its entries below ./a inserted: both were pushed onto the
\* Dict that find_mut found for "./a", ahead of the rest of the walk.
C37_Witness ==
    /\ build.pc = "walking"
    /\ walk # << >>
    /\ Head(walk).ok
    /\ \E i \in 1 .. Len(root.contents) :
          /\ root.contents[i].name = N_a
          /\ root.contents[i].tag = "Dict"
          /\ Len(root.contents[i].contents) = 2

-----------------------------------------------------------------------------
(* The worker of a lazy open and releases (SpecDesc) *)

\* C38: the worker of every lazy open gets its one result into the channel,
\* whatever the open answered and however releases fall between: its send
\* never fails (tx.send(..).unwrap() does not panic), no find panics in
\* rx.recv().expect(..), and a find is parked only on a channel whose worker
\* has yet to send or has sent the value the find is about to take.
C38_WorkerSendsResolverReturns ==
    /\ \A c \in DOMAIN chan : chan[c].st # "sendfailed"
    /\ last.op = "find" => last.ret # "panic"
    /\ blocked # None =>
          /\ blocked[1] \in DOMAIN open
          /\ RecvFrom(open[blocked[1]], blocked[2]) # 0
          /\ chan[RecvFrom(open[blocked[1]], blocked[2])].st
                \in {"pending", "sent"}

====
